---- MODULE Spec2Model ----
(***************************************************************************)
(* toolflow_rs: the run orchestrator (Workflow::run), the resume logic     *)
(* (WorkflowRun::load_status) and cooperative cancellation.                *)
(*                                                                         *)
(* One run of one workflow is executed by one task.  The task's position   *)
(* is pc; the database is the run row (run) and the file table (file); the *)
(* artifact directory is disk.  An external actor may set the run row to   *)
(* CANCEL while the task executes.                                         *)
(*                                                                         *)
(* SpecEnv adds the file garbage collection and the scheduled activation   *)
(* that act on the run's tables while its task executes.  SpecServer is    *)
(* the scheduler loop (App::server) over several runs, whose tasks are     *)
(* modelled by their writes to the tables.  SpecCache is the site cache    *)
(* (App::get_site_info) called by concurrent tasks.  SpecCancel adds the   *)
(* cancellation of a dispatched run to the scheduler loop, FairSpecBroken  *)
(* workflows that cannot be loaded.  SpecJoin, SpecFilter, SpecFile and    *)
(* SpecWiki apply the data operations (Join, Filter, FilterSort,           *)
(* DataFile::write_json_row, WikiPage::fill_missing) to bounded inputs.    *)
(* SpecSlots runs workflows whose edges carry target slots, SpecGenerator  *)
(* workflows with a Generator node, SpecJoinWide joins files of several    *)
(* columns, SpecCmp compares two cells (DataCell::partial_cmp) and SpecUrl *)
(* reads an entity URL into a WikiPage cell (DataCell::from_value).        *)
(***************************************************************************)
EXTENDS Integers, Sequences, FiniteSets, TLC

\* ---------------------------------------------------------------- bounds
NumNodes == 3
MaxEdges == 2
MaxExtraRows == 1
MaxTime == 1
MaxBadUuid == 1
NumRuns == 2
MaxUuid == 3
MaxDbFails == 1
NumCallers == 2
MaxCalls == 2
MaxFiles == 3
MaxRows == 2
MaxFileSize == 2
MaxSlot == 1
MaxCols == 2

Nodes == 0 .. (NumNodes - 1)

\* WorkflowNodeStatus::new: uuid: String::new() (the empty uuid)
NoUuid == 0

\* WorkflowNodeStatusValue
WAITING == "WAITING"
RUNNING == "RUNNING"
DONE == "DONE"
FAILED == "FAILED"

\* the clock counts hours: "NOW() + INTERVAL 1 HOUR" (run line 322)
Hour == 1

\* `expires` = NULL
Null == -1

\* the artifacts already recorded when the task starts have uuids 1 .. MaxInitUuid
MaxInitUuid == NumNodes + MaxExtraRows

VARIABLES
    edges,          \* Workflow.edges: set of <<source_node, target_node>>
    file,           \* the rows of table `file` of this run, in scan order
    disk,           \* uuids of the artifact files on disk
    node_status,    \* WorkflowRun.node_status: node_id -> [status, uuid]
    run,            \* the row of table `run`: [status, nodes_done, details]
    pc,             \* position of the run task in Workflow::run
    nodes_to_run,   \* the current wave
    results,        \* per node of the wave: [state, uuid]
    computed,       \* number of calls of get_next_nodes_to_run so far
    prevDone,       \* the DONE nodes at the latest call of get_next_nodes_to_run
    dispatched,     \* how often each node has been started
    loads,          \* number of load_status calls so far
    firstStatus,    \* node_status after the first load_status
    rowNodes0,      \* the nodes that had a file row before load_status
    resetUuids,     \* the uuids load_status collected in remove_uuids
    resetNodes,     \* the nodes load_status reset from DONE to WAITING
    loadIters,      \* iterations of the reset loop in the latest load_status
    cancelSeen,     \* an external actor has written CANCEL
    now,            \* the database clock NOW(), in hours
    badDisk,        \* uuids whose file std::fs::remove_file cannot remove
    runs,           \* table `run`: id -> [status]
    sched,          \* table `scheduler`: run_id -> [is_active, next_event, interval]
    tasks,          \* per run id: the spawned run tasks that have not returned
    spc,            \* position of App::server
    cur,            \* the run id find_next_waiting_run returned
    nextUuid,       \* the next uuid a task of the server creates
    dbFails,        \* database operations that have failed so far
    site_matrix,    \* App.site_matrix, the entry of one wiki (NoApi: none)
    readers,        \* the callers that hold the read lock of site_matrix
    writer,         \* the caller that holds its write lock (0: none)
    gpc,            \* per caller: its position in get_site_info
    api,            \* per caller: the Api it has fetched (local `api`)
    got,            \* per caller: what its latest call returned
    fetches,        \* number of Api::new calls that have succeeded
    calls,          \* per caller: calls of get_site_info so far
    attempted,      \* uuids remove_uuid_file was called with by the latest
                    \* operation that removes files
    jfiles,         \* the input files of a Join operation, in the order given
    jres,           \* what the Join operation returned
    fin,            \* the input file and the parameters of a Filter or FilterSort
    fout,           \* what its first and its second run returned
    df,             \* a DataFile that is being written
    wp,             \* a WikiPage before fill_missing
    wout            \* the WikiPage after fill_missing

vars == << edges, file, disk, node_status, run, pc, nodes_to_run, results,
           computed, prevDone, dispatched, loads, firstStatus, rowNodes0,
           resetUuids, resetNodes, loadIters, cancelSeen, now, badDisk,
           runs, sched, tasks, spc, cur, nextUuid, dbFails, site_matrix,
           readers, writer, gpc, api, got, fetches, calls, attempted,
           jfiles, jres, fin, fout, df, wp, wout >>

\* the state of the scheduler loop and of the tables it works on
srvVars == << runs, sched, tasks, spc, cur, nextUuid, dbFails >>

\* the site metadata cache and its callers
cacheVars == << site_matrix, readers, writer, gpc, api, got, fetches, calls >>

\* the inputs and results of the data operations (join, filter, sort, ...)
joinVars == << jfiles, jres >>
filterVars == << fin, fout >>
fileVars == << df >>
wikiVars == << wp, wout >>
dataVars == << joinVars, filterVars, fileVars, wikiVars >>

\* what no step of the run task writes
envVars == << now, badDisk, srvVars, cacheVars, dataVars >>

\* what no step of the run task after load_status writes
others == << now, badDisk, srvVars, cacheVars, dataVars, attempted >>

\* what only the run task writes
taskVars == << edges, node_status, pc, nodes_to_run, results, computed,
               prevDone, dispatched, loads, firstStatus, rowNodes0, resetUuids,
               resetNodes, loadIters, cancelSeen >>

\* ------------------------------------------------------------ pure parts

\* WorkflowNodeStatus::new
NewNodeStatus == [status |-> WAITING, uuid |-> NoUuid]

\* WorkflowNodeStatus::is_done
IsDone(ns, n) == ns[n].status = DONE

DoneSet(ns) == { n \in Nodes : IsDone(ns, n) }

\* WorkflowNodeStatus::done_with_uuid / run lines 327-328
MarkDoneStuck(ns, n, uuid) == ns
MarkDone(ns, n, uuid) == [ns EXCEPT ![n] = [status |-> DONE, uuid |-> uuid]]

\* load_status, first loop: every file row sets its node DONE with the row's
\* uuid; a later row of the same node overwrites an earlier one
RECURSIVE ApplyRows(_, _)
ApplyRows(ns, rows) ==
    IF rows = << >> THEN ns
    ELSE ApplyRows(MarkDone(ns, Head(rows).node_id, Head(rows).uuid), Tail(rows))

\* load_status, one iteration of the reset loop: the targets of the edges
\* whose target is done and whose source is not
Redo(ns, E) ==
    LET done == DoneSet(ns)
        todo == Nodes \ done
    IN  { e[2] : e \in { e \in E : e[2] \in done /\ e[1] \in todo } }

\* load_status, the reset loop to its fixpoint
RECURSIVE ResetLoop(_, _, _, _, _)
ResetLoop(ns, E, uuids, nodes, iters) ==
    LET redo == Redo(ns, E)
    IN  IF redo = {}
        THEN [ns |-> ns, uuids |-> uuids, nodes |-> nodes, iters |-> iters]
        ELSE ResetLoop([n \in Nodes |-> IF n \in redo THEN NewNodeStatus ELSE ns[n]],
                       E,
                       uuids \cup { ns[n].uuid : n \in redo },
                       nodes \cup redo,
                       iters + 1)

\* a single pass of the reset loop (what a loop without fixpoint would do)
ResetOnce(ns, E, uuids, nodes, iters) ==
    LET redo == Redo(ns, E)
    IN  [ns |-> [n \in Nodes |-> IF n \in redo THEN NewNodeStatus ELSE ns[n]],
         uuids |-> uuids \cup { ns[n].uuid : n \in redo },
         nodes |-> nodes \cup redo,
         iters |-> iters + 1]

\* load_status, in-memory part: rows applied, then the reset loop
LoadedOnce(ns, rows, E) == ResetOnce(ApplyRows(ns, rows), E, {}, {}, 0)
Loaded(ns, rows, E) == ResetLoop(ApplyRows(ns, rows), E, {}, {}, 0)

\* DELETE FROM file WHERE uuid IN (remove_uuids)
DeleteRows(rows, uuids) ==
    LET Keep(r) == r.uuid \notin uuids
    IN  SelectSeq(rows, Keep)

\* App::remove_uuid_file: Ok when the file of the uuid is on disk d and its
\* removal meets no I/O error
RemoveUuidFile(d, uuid, bad) == uuid \in d /\ uuid \notin bad

\* App::remove_files for the selected rows (a row is named by its uuid, which
\* is unique as its id is): the file of each is removed; the rows whose file
\* was removed are deleted, the others are logged
RemoveFilesAnyway(rows, d, sel, bad) ==
    [file |-> DeleteRows(rows, sel),
     disk |-> d \ { u \in sel : RemoveUuidFile(d, u, bad) },
     logged |-> { u \in sel : ~RemoveUuidFile(d, u, bad) }]
RemoveFilesStopAtError(rows, d, sel, bad) ==
    IF \E u \in sel : ~RemoveUuidFile(d, u, bad)
    THEN [file |-> rows, disk |-> d,
          logged |-> { u \in sel : ~RemoveUuidFile(d, u, bad) }]
    ELSE [file |-> DeleteRows(rows, sel), disk |-> d \ sel, logged |-> {}]
RemoveFiles(rows, d, sel, bad) ==
    [file |-> DeleteRows(rows, { u \in sel : RemoveUuidFile(d, u, bad) }),
     disk |-> d \ { u \in sel : RemoveUuidFile(d, u, bad) },
     logged |-> { u \in sel : ~RemoveUuidFile(d, u, bad) }]

\* clear_old_files: SELECT ... WHERE expires <= NOW() (NULL matches nothing)
OldFilesNullIsZero(rows, t) ==
    { rows[i].uuid : i \in { j \in 1 .. Len(rows) : rows[j].expires <= t } }
OldFiles(rows, t) ==
    { rows[i].uuid : i \in { j \in 1 .. Len(rows) :
                                rows[j].expires # Null /\ rows[j].expires <= t } }

\* the uuids of the rows of the file table
RowUuids(rows) == { rows[i].uuid : i \in 1 .. Len(rows) }

\* clear_all_run_results: SELECT ... WHERE run_id = ? (every row of the run)
AllRunFiles(rows) == { rows[i].uuid : i \in 1 .. Len(rows) }

\* Workflow::node_open_dependencies
NodeOpenDependenciesNone(ns, E, n) == 0
NodeOpenDependenciesRoots(ns, E, n) == Cardinality({ e \in E : e[2] = n })
NodeOpenDependencies(ns, E, n) ==
    Cardinality({ e \in E : e[2] = n /\ ns[e[1]].status # DONE })

\* Workflow::run lines 282-291: the inputs of node n, a map from slot to uuid;
\* an edge inserted later replaces the entry of an earlier edge with the same
\* slot, so the entry of a slot is the uuid of the last edge of self.edges
\* into that slot (any of them, the order of self.edges being an input)
IncomingEdges(E, n) == { e \in E : e[2] = n }
InputMaps(E, ns, n) ==
    { f \in [{ e[3] : e \in IncomingEdges(E, n) } ->
                { ns[e[1]].uuid : e \in IncomingEdges(E, n) }] :
        \A sl \in DOMAIN f :
            \E e \in IncomingEdges(E, n) : e[3] = sl /\ ns[e[1]].uuid = f[sl] }

\* Workflow::get_next_nodes_to_run
GetNextNodesToRun(ns, E) ==
    { n \in Nodes : ns[n].status = WAITING /\ NodeOpenDependencies(ns, E, n) = 0 }

\* WorkflowRun::update_status: the run row it writes
RunRowOpen(status, ns) ==
    [status |-> status, nodes_done |-> Cardinality(Nodes \ DoneSet(ns)),
     details |-> ns]
RunRow(status, ns) ==
    [status |-> status, nodes_done |-> Cardinality(DoneSet(ns)), details |-> ns]

\* join_all(futures).await returns once every future of the wave has finished
JoinAllSome(res, wave) == \E n \in wave : res[n].state # "pending"
JoinAllReturns(res, wave) == \A n \in wave : res[n].state # "pending"

\* results.iter().filter(|r| r.is_err()).next()
HasError(res, wave) == \E n \in wave : res[n].state = "err"

\* WorkflowRun::is_cancelled
IsCancelledNever(row) == FALSE
IsCancelled(row) == row.status = "CANCEL"

\* Workflow::get_output_nodes: the nodes that are the source of no edge
GetOutputNodesAll(E) == Nodes
GetOutputNodes(E) == { n \in Nodes : ~(\E e \in E : e[1] = n) }

\* run lines 321-322: end_time of the row of node n inserted at time t
EndTime(E, n, t) == IF n \in GetOutputNodes(E) THEN Null ELSE t + Hour

\* the uuid of the artifact a node creates (Uuid::new_v4: fresh per execution)
FreshUuid(n, wave) == MaxInitUuid + wave * NumNodes + n + 1

NoResult == [state |-> "none", uuid |-> NoUuid]

\* the rows of the wave's nodes, INSERTed in node order (run lines 320-326)
RECURSIVE WaveRows(_, _, _, _)
WaveRows(res, wave, E, t) ==
    IF wave = {} THEN << >>
    ELSE LET n == CHOOSE m \in wave : \A k \in wave : m <= k
         IN  << [uuid |-> res[n].uuid, node_id |-> n, expires |-> EndTime(E, n, t)] >>
             \o WaveRows(res, wave \ {n}, E, t)

\* every node of the wave DONE with its uuid (run lines 327-328)
RECURSIVE WaveDone(_, _, _)
WaveDone(ns, res, wave) ==
    IF wave = {} THEN ns
    ELSE LET n == CHOOSE m \in wave : TRUE
         IN  WaveDone(MarkDone(ns, n, res[n].uuid), res, wave \ {n})

\* --------------------------------------------------------------- initial

EdgeSets == { E \in SUBSET (Nodes \X Nodes) : Cardinality(E) <= MaxEdges }

\* WorkflowEdge with its target_slot: << source_node, target_node, target_slot >>
Slots == 0 .. MaxSlot
SlotEdgeSets ==
    { E \in SUBSET (Nodes \X Nodes \X Slots) : Cardinality(E) <= MaxEdges }

\* the file table with cnt[n] rows for node n; uuids 1, 2, ... in scan order;
\* the rows were inserted by an earlier execution of the run (at time 0)
RECURSIVE RowsFor(_, _, _, _)
RowsFor(cnt, n, next, E) ==
    IF n = NumNodes THEN << >>
    ELSE [i \in 1 .. cnt[n] |->
            [uuid |-> next + i - 1, node_id |-> n, expires |-> EndTime(E, n, 0)]]
         \o RowsFor(cnt, n + 1, next + cnt[n], E)

\* a node has no file row, one, or (at most MaxExtraRows nodes) two
RowCounts ==
    { cnt \in [Nodes -> 0 .. 2] :
        Cardinality({ n \in Nodes : cnt[n] = 2 }) <= MaxExtraRows }

\* the scheduler loop is not part of the specification
NoServer ==
    /\ runs = << >>
    /\ sched = << >>
    /\ tasks = << >>
    /\ spc = "off"
    /\ cur = 0
    /\ nextUuid = 0
    /\ dbFails = 0

\* no entry cached
NoApi == 0

\* get_site_info is not part of the specification
NoCache ==
    /\ site_matrix = NoApi
    /\ readers = {}
    /\ writer = 0
    /\ gpc = << >>
    /\ api = << >>
    /\ got = << >>
    /\ fetches = 0
    /\ calls = << >>

\* no data operation is part of the specification
NoJoin ==
    /\ jfiles = << >>
    /\ jres = << >>

NoFilter ==
    /\ fin = << >>
    /\ fout = << >>

NoFile == df = << >>

NoWiki ==
    /\ wp = << >>
    /\ wout = << >>

NoData == NoJoin /\ NoFilter /\ NoFile /\ NoWiki

InitEdges(ES) ==
    /\ NoData
    /\ edges \in ES
    /\ \E cnt \in RowCounts :
         /\ file = RowsFor(cnt, 0, 1, edges)
         /\ rowNodes0 = { n \in Nodes : cnt[n] > 0 }
    /\ disk = { file[i].uuid : i \in 1 .. Len(file) }
    /\ node_status = [n \in Nodes |-> NewNodeStatus]
    /\ run = RunRow("RUN", [n \in Nodes |-> NewNodeStatus])
    /\ pc = "start"
    /\ nodes_to_run = {}
    /\ results = [n \in Nodes |-> NoResult]
    /\ computed = 0
    /\ prevDone = {}
    /\ dispatched = [n \in Nodes |-> 0]
    /\ loads = 0
    /\ firstStatus = [n \in Nodes |-> NewNodeStatus]
    /\ resetUuids = {}
    /\ resetNodes = {}
    /\ loadIters = 0
    /\ cancelSeen = FALSE
    /\ now = 0
    /\ attempted = {}
    /\ NoServer
    /\ NoCache

\* the edges without their slots
InitRun == InitEdges(EdgeSets)

\* no removal of a file meets an I/O error
Init == InitRun /\ badDisk = {}

\* the edges with their slots
InitSlots == InitEdges(SlotEdgeSets) /\ badDisk = {}

\* --------------------------------------------------------------- actions

\* WorkflowRun::load_status, whole: SELECT, reset loop, remove_uuid_file for
\* every collected uuid, DELETE of their rows
LoadStatusStep ==
    \E l \in { Loaded(node_status, file, edges) } :
        /\ node_status' = l.ns
        /\ disk' = disk \ { u \in l.uuids : RemoveUuidFile(disk, u, badDisk) }
        /\ attempted' = l.uuids
        /\ file' = DeleteRows(file, l.uuids)
        /\ resetUuids' = l.uuids
        /\ resetNodes' = l.nodes
        /\ loadIters' = l.iters
        /\ loads' = loads + 1
        /\ firstStatus' = IF loads = 0 THEN l.ns ELSE firstStatus

\* Workflow::run line 274
LoadStatus ==
    /\ pc = "start"
    /\ LoadStatusStep
    /\ pc' = "loop"
    /\ UNCHANGED << edges, run, nodes_to_run, results, computed, prevDone,
                    dispatched, rowNodes0, cancelSeen >>
    /\ UNCHANGED envVars

\* Workflow::run lines 277-298: the wave is computed and its nodes started
Dispatch ==
    /\ pc = "loop"
    /\ computed <= NumNodes
    /\ GetNextNodesToRun(node_status, edges) # {}
    /\ nodes_to_run' = GetNextNodesToRun(node_status, edges)
    /\ results' = [n \in Nodes |->
                     IF n \in GetNextNodesToRun(node_status, edges)
                     THEN [state |-> "pending", uuid |-> NoUuid] ELSE NoResult]
    /\ dispatched' = [n \in Nodes |->
                        IF n \in GetNextNodesToRun(node_status, edges)
                        THEN dispatched[n] + 1 ELSE dispatched[n]]
    /\ computed' = computed + 1
    /\ prevDone' = DoneSet(node_status)
    /\ pc' = "running"
    /\ UNCHANGED << edges, file, disk, node_status, run, loads, firstStatus,
                    rowNodes0, resetUuids, resetNodes, loadIters, cancelSeen >>
    /\ UNCHANGED others

\* Workflow::run lines 277-280 and 333: no node is ready, the run row is
\* written DONE
Finish ==
    /\ pc = "loop"
    /\ computed <= NumNodes
    /\ GetNextNodesToRun(node_status, edges) = {}
    /\ nodes_to_run' = {}
    /\ results' = [n \in Nodes |-> NoResult]
    /\ computed' = computed + 1
    /\ prevDone' = DoneSet(node_status)
    /\ run' = RunRow("DONE", node_status)
    /\ pc' = "done"
    /\ UNCHANGED << edges, file, disk, node_status, dispatched, loads,
                    firstStatus, rowNodes0, resetUuids, resetNodes, loadIters,
                    cancelSeen >>
    /\ UNCHANGED others

\* WorkflowNode::run of one node of the wave returns Ok(uuid): the artifact
\* is on disk
NodeOk(n) ==
    /\ pc = "running"
    /\ n \in nodes_to_run
    /\ results[n].state = "pending"
    /\ results' = [results EXCEPT ![n] = [state |-> "ok",
                                          uuid |-> FreshUuid(n, computed)]]
    /\ disk' = disk \cup { FreshUuid(n, computed) }
    /\ UNCHANGED << edges, file, node_status, run, pc, nodes_to_run, computed,
                    prevDone, dispatched, loads, firstStatus, rowNodes0,
                    resetUuids, resetNodes, loadIters, cancelSeen >>
    /\ UNCHANGED others

\* WorkflowNode::run of one node of the wave returns Err
NodeErr(n) ==
    /\ pc = "running"
    /\ n \in nodes_to_run
    /\ results[n].state = "pending"
    /\ results' = [results EXCEPT ![n] = [state |-> "err", uuid |-> NoUuid]]
    /\ UNCHANGED << edges, file, disk, node_status, run, pc, nodes_to_run,
                    computed, prevDone, dispatched, loads, firstStatus,
                    rowNodes0, resetUuids, resetNodes, loadIters, cancelSeen >>
    /\ UNCHANGED others

\* Workflow::run lines 299-308: the wave has returned with an error
WaveFailed ==
    /\ pc = "running"
    /\ JoinAllReturns(results, nodes_to_run)
    /\ HasError(results, nodes_to_run)
    /\ run' = RunRow("FAIL", node_status)
    /\ pc' = "failed"
    /\ UNCHANGED << edges, file, disk, node_status, nodes_to_run, results,
                    computed, prevDone, dispatched, loads, firstStatus,
                    rowNodes0, resetUuids, resetNodes, loadIters, cancelSeen >>
    /\ UNCHANGED others

\* Workflow::run lines 299-319: the wave has returned without error and the
\* run row is found CANCEL
WaveCancelled ==
    /\ pc = "running"
    /\ JoinAllReturns(results, nodes_to_run)
    /\ ~HasError(results, nodes_to_run)
    /\ IsCancelled(run)
    /\ pc' = "cancelled"
    /\ UNCHANGED << edges, file, disk, node_status, run, nodes_to_run, results,
                    computed, prevDone, dispatched, loads, firstStatus,
                    rowNodes0, resetUuids, resetNodes, loadIters, cancelSeen >>
    /\ UNCHANGED others

\* Workflow::run lines 299-319: the wave has returned without error and the
\* run row is not CANCEL
WaveChecked ==
    /\ pc = "running"
    /\ JoinAllReturns(results, nodes_to_run)
    /\ ~HasError(results, nodes_to_run)
    /\ ~IsCancelled(run)
    /\ pc' = "insert"
    /\ UNCHANGED << edges, file, disk, node_status, run, nodes_to_run, results,
                    computed, prevDone, dispatched, loads, firstStatus,
                    rowNodes0, resetUuids, resetNodes, loadIters, cancelSeen >>
    /\ UNCHANGED others

\* Workflow::run lines 320-330: a file row per node of the wave, the node
\* DONE with its uuid, then the run row written RUN
InsertFiles ==
    /\ pc = "insert"
    /\ file' = file \o WaveRows(results, nodes_to_run, edges, now)
    /\ node_status' = WaveDone(node_status, results, nodes_to_run)
    /\ run' = RunRow("RUN", node_status')
    /\ pc' = "loop"
    /\ UNCHANGED << edges, disk, nodes_to_run, results, computed, prevDone,
                    dispatched, loads, firstStatus, rowNodes0, resetUuids,
                    resetNodes, loadIters, cancelSeen >>
    /\ UNCHANGED others

Ended == { "done", "failed", "cancelled" }

\* an external actor (the web interface) writes CANCEL into the run row
\* while the task executes
Cancel ==
    /\ pc \notin Ended
    /\ run.status # "CANCEL"
    /\ run' = [run EXCEPT !.status = "CANCEL"]
    /\ cancelSeen' = TRUE
    /\ UNCHANGED << edges, file, disk, node_status, pc, nodes_to_run, results,
                    computed, prevDone, dispatched, loads, firstStatus,
                    rowNodes0, resetUuids, resetNodes, loadIters >>
    /\ UNCHANGED others

\* the steps of the run loop (Workflow::run lines 275-333)
RunLoop ==
    \/ Dispatch
    \/ Finish
    \/ \E n \in Nodes : NodeOk(n)
    \/ \E n \in Nodes : NodeErr(n)
    \/ WaveFailed
    \/ WaveCancelled
    \/ WaveChecked
    \/ InsertFiles

\* the steps of the run task
RunTask == LoadStatus \/ RunLoop

Next == RunTask \/ Cancel

Spec == Init /\ [][Next]_vars

\* DataFileDetails::new_invalid: uuid is String::default()
NewInvalid == [state |-> "ok", uuid |-> NoUuid]

\* WorkflowNode::run of a Generator node of the wave (a node with an input
\* and no outgoing edge) returns Ok(DataFileDetails::new_invalid()): the page
\* is edited, no artifact is written
GeneratorOk(n) ==
    /\ pc = "running"
    /\ n \in nodes_to_run
    /\ results[n].state = "pending"
    /\ n \in GetOutputNodes(edges)
    /\ \E e \in edges : e[2] = n
    /\ results' = [results EXCEPT ![n] = NewInvalid]
    /\ UNCHANGED << edges, file, disk, node_status, run, pc, nodes_to_run,
                    computed, prevDone, dispatched, loads, firstStatus,
                    rowNodes0, resetUuids, resetNodes, loadIters, cancelSeen >>
    /\ UNCHANGED others

\* the run task on a workflow whose sinks may be Generator nodes
NextGenerator == Next \/ \E n \in Nodes : GeneratorOk(n)

SpecGenerator == Init /\ [][NextGenerator]_vars

\* the run task on a workflow whose edges name their target slots
SpecSlots == InitSlots /\ [][Next]_vars

\* the task is scheduled by the tokio runtime and every node's future ends
\* (each request has a timeout): the task's next step is eventually taken
FairSpec == Spec /\ WF_vars(RunTask)

\* an hour passes
Tick ==
    /\ now < MaxTime
    /\ now' = now + 1
    /\ UNCHANGED << taskVars, file, disk, run, badDisk, attempted, srvVars,
                    cacheVars, dataVars >>

\* App::clear_old_files, called by the scheduler at boot and every five
\* minutes while run tasks execute
ClearOldFiles ==
    /\ file' = RemoveFiles(file, disk, OldFiles(file, now), badDisk).file
    /\ disk' = RemoveFiles(file, disk, OldFiles(file, now), badDisk).disk
    /\ attempted' = OldFiles(file, now)
    /\ UNCHANGED << taskVars, run, now, badDisk, srvVars, cacheVars, dataVars >>

\* App::activate_scheduled_runs lines 125-126 for a due, active scheduler
\* row of this run: clear_all_run_results, then the run row set to WAIT
\* unless it is RUN
ActivateRun ==
    /\ file' = RemoveFiles(file, disk, AllRunFiles(file), badDisk).file
    /\ disk' = RemoveFiles(file, disk, AllRunFiles(file), badDisk).disk
    /\ attempted' = AllRunFiles(file)
    /\ run' = IF run.status # "RUN" THEN [run EXCEPT !.status = "WAIT"] ELSE run
    /\ UNCHANGED << taskVars, now, badDisk, srvVars, cacheVars, dataVars >>

\* the removal of some of the files recorded at the start meets an I/O error
InitEnv == InitRun /\ badDisk \in SUBSET (1 .. MaxBadUuid)

\* the run task together with what the scheduler does to its run meanwhile
\* (nobody cancels)
NextEnv == RunTask \/ Cancel \/ Tick \/ ClearOldFiles \/ ActivateRun

SpecEnv == InitEnv /\ [][NextEnv]_vars

\* the run task and the garbage collection alone: the run has no scheduler row
NextGc == RunTask \/ Cancel \/ Tick \/ ClearOldFiles

SpecGc == InitEnv /\ [][NextGc]_vars

\* load_status called a second time on the same run, no node executed between
LoadStatusAgain ==
    /\ pc = "loop"
    /\ loads = 1
    /\ LoadStatusStep
    /\ UNCHANGED << edges, run, pc, nodes_to_run, results, computed, prevDone,
                    dispatched, rowNodes0, cancelSeen >>
    /\ UNCHANGED envVars

NextResume == LoadStatus \/ LoadStatusAgain

SpecResume == Init /\ [][NextResume]_vars

\* ---------------------------------------------------- the scheduler loop

RunIds == 1 .. NumRuns

\* WorkflowNodeStatusValue::as_str
AsStrName(v) == v
AsStr(v) ==
    CASE v = WAITING -> "WAIT"
      [] v = RUNNING -> "RUN"
      [] v = DONE -> "DONE"
      [] v = FAILED -> "FAIL"
      [] OTHER -> "CANCEL"

\* INTERVAL 1 DAY / 1 WEEK / 1 MONTH, in hours
Day == 24
Week == 168
Month == 720

Intervals == { "DAILY", "WEEKLY", "MONTHLY" }

IntervalLen(i) ==
    CASE i = "DAILY" -> Day
      [] i = "WEEKLY" -> Week
      [] OTHER -> Month

\* activate_scheduled_runs: SELECT run_id FROM scheduler
\* WHERE is_active=1 AND next_event<now()
DueAlso(sc, t) == { r \in RunIds : sc[r].next_event < t }
Due(sc, t) == { r \in RunIds : sc[r].is_active /\ sc[r].next_event < t }

\* clear_all_run_results for the runs R: the uuids of their rows
RunFiles(rows, R) ==
    { rows[i].uuid : i \in { j \in 1 .. Len(rows) : rows[j].run_id \in R } }

\* UPDATE run SET status='WAIT' WHERE status!='RUN' AND id=?, for the runs R
SetWait(rs, R) ==
    [r \in RunIds |->
        IF r \in R /\ rs[r].status # "RUN"
        THEN [rs[r] EXCEPT !.status = "WAIT"] ELSE rs[r]]

\* UPDATE scheduler SET next_event=DATE_ADD(now(), INTERVAL ..) WHERE
\* interval=.. AND is_active=1 AND run_id=?, for the runs R
AdvanceToNow(sc, R, t) ==
    [r \in RunIds |->
        IF r \in R /\ sc[r].is_active
        THEN [sc[r] EXCEPT !.next_event = t] ELSE sc[r]]
Advance(sc, R, t) ==
    [r \in RunIds |->
        IF r \in R /\ sc[r].is_active
        THEN [sc[r] EXCEPT !.next_event = t + IntervalLen(sc[r].interval)]
        ELSE sc[r]]

\* find_next_waiting_run: the rows SELECT .. WHERE status='WAIT' may return
WaitingRuns(rs) == { r \in RunIds : rs[r].status = "WAIT" }

\* UPDATE run SET status='WAIT' WHERE status='RUN'
ResetRunningNone(rs) == rs
ResetRunning(rs) ==
    [r \in RunIds |->
        IF rs[r].status = "RUN" THEN [rs[r] EXCEPT !.status = "WAIT"] ELSE rs[r]]

\* what no step of the scheduler loop or of its tasks writes
runModelVars == << taskVars, run, cacheVars, dataVars >>

\* the run task of the first part is not part of the specification
NoTask ==
    /\ edges = {}
    /\ node_status = [n \in Nodes |-> NewNodeStatus]
    /\ run = RunRow("RUN", [n \in Nodes |-> NewNodeStatus])
    /\ pc = "off"
    /\ nodes_to_run = {}
    /\ results = [n \in Nodes |-> NoResult]
    /\ computed = 0
    /\ prevDone = {}
    /\ dispatched = [n \in Nodes |-> 0]
    /\ loads = 0
    /\ firstStatus = [n \in Nodes |-> NewNodeStatus]
    /\ rowNodes0 = {}
    /\ resetUuids = {}
    /\ resetNodes = {}
    /\ loadIters = 0
    /\ cancelSeen = FALSE

SchedRows ==
    { [is_active |-> FALSE, next_event |-> 0, interval |-> "DAILY"] }
    \cup { [is_active |-> TRUE, next_event |-> 0, interval |-> i] :
              i \in Intervals }

\* the rows a previous process left behind: per run none, the row of an
\* intermediate node that has expired, or the row of an output node
RECURSIVE LeftRows(_, _)
LeftRows(kinds, r) ==
    IF r > NumRuns THEN << >>
    ELSE (IF kinds[r] = "none" THEN << >>
          ELSE << [uuid |-> r, run_id |-> r,
                   expires |-> IF kinds[r] = "output" THEN Null ELSE 0] >>)
         \o LeftRows(kinds, r + 1)

\* the process starts: the tables are as a previous process left them;
\* workflow_ok says whether Workflow::from_id can load the workflow of the run
InitTables(Oks) ==
    /\ NoTask
    /\ NoData
    /\ runs \in [RunIds -> { [status |-> st, workflow_ok |-> ok] :
                                st \in { "WAIT", "RUN", "DONE" }, ok \in Oks }]
    /\ sched \in [RunIds -> SchedRows]
    /\ \E kinds \in [RunIds -> { "none", "old", "output" }] :
          file = LeftRows(kinds, 1)
    /\ disk = RowUuids(file)
    /\ badDisk \in SUBSET (1 .. MaxBadUuid)
    /\ tasks = [r \in RunIds |-> 0]
    /\ spc = "boot"
    /\ cur = 0
    /\ nextUuid = NumRuns + 1
    /\ dbFails = 0
    /\ now = 0
    /\ attempted = {}
    /\ NoCache

\* every workflow can be loaded
InitServer == InitTables({ TRUE })

\* server line 220: a connection, then clear_old_files (its result dropped)
BootClearOldFiles ==
    /\ spc = "boot"
    /\ file' = RemoveFiles(file, disk, OldFiles(file, now), badDisk).file
    /\ disk' = RemoveFiles(file, disk, OldFiles(file, now), badDisk).disk
    /\ attempted' = OldFiles(file, now)
    /\ spc' = "boot_reset"
    /\ UNCHANGED << runModelVars, now, badDisk, runs, sched, tasks, cur,
                    nextUuid, dbFails >>

\* server line 220: get_db_connection fails, server returns the error
BootConnFail ==
    /\ spc = "boot"
    /\ dbFails < MaxDbFails
    /\ dbFails' = dbFails + 1
    /\ spc' = "boot_failed"
    /\ UNCHANGED << runModelVars, now, badDisk, file, disk, attempted, runs,
                    sched, tasks, cur, nextUuid >>

\* server line 221: reset_running_jobs
ResetRunningJobs ==
    /\ spc = "boot_reset"
    /\ runs' = ResetRunning(runs)
    /\ spc' = "loop"
    /\ UNCHANGED << runModelVars, now, badDisk, file, disk, attempted, sched,
                    tasks, cur, nextUuid, dbFails >>

\* server line 221: reset_running_jobs fails, expect() panics
ResetRunningJobsFail ==
    /\ spc = "boot_reset"
    /\ dbFails < MaxDbFails
    /\ dbFails' = dbFails + 1
    /\ spc' = "panicked"
    /\ UNCHANGED << runModelVars, now, badDisk, file, disk, attempted, runs,
                    sched, tasks, cur, nextUuid >>

\* server lines 226-234: five minutes have passed since the last pass
LoopClearOldFiles ==
    /\ spc = "loop"
    /\ file' = RemoveFiles(file, disk, OldFiles(file, now), badDisk).file
    /\ disk' = RemoveFiles(file, disk, OldFiles(file, now), badDisk).disk
    /\ attempted' = OldFiles(file, now)
    /\ UNCHANGED << runModelVars, now, badDisk, runs, sched, tasks, spc, cur,
                    nextUuid, dbFails >>

\* server line 229 or 236: get_db_connection fails, server returns the error
ConnFail ==
    /\ spc = "loop"
    /\ dbFails < MaxDbFails
    /\ dbFails' = dbFails + 1
    /\ spc' = "returned"
    /\ UNCHANGED << runModelVars, now, badDisk, file, disk, attempted, runs,
                    sched, tasks, cur, nextUuid >>

\* activate_scheduled_runs without a failing statement
ActivateScheduledRuns ==
    /\ file' = RemoveFiles(file, disk, RunFiles(file, Due(sched, now)), badDisk).file
    /\ disk' = RemoveFiles(file, disk, RunFiles(file, Due(sched, now)), badDisk).disk
    /\ attempted' = RunFiles(file, Due(sched, now))
    /\ runs' = SetWait(runs, Due(sched, now))
    /\ sched' = Advance(sched, Due(sched, now), now)

\* server lines 236-237 and 259, find_next_waiting_run: scheduled runs are
\* activated (an error is logged), then one WAIT row is selected; without a
\* row (or when the SELECT fails) hold_on and the next iteration
FindNextWaitingRun ==
    /\ spc = "loop"
    /\ \E actFails, selFails \in BOOLEAN :
          /\ dbFails + (IF actFails THEN 1 ELSE 0) + (IF selFails THEN 1 ELSE 0)
                <= MaxDbFails
          /\ dbFails' = dbFails + (IF actFails THEN 1 ELSE 0)
                                + (IF selFails THEN 1 ELSE 0)
          /\ IF actFails
             THEN UNCHANGED << file, disk, attempted, runs, sched >>
             ELSE ActivateScheduledRuns
          /\ IF selFails \/ WaitingRuns(runs') = {}
             THEN cur' = 0 /\ spc' = "loop"
             ELSE cur' \in WaitingRuns(runs') /\ spc' = "load"
    /\ UNCHANGED << runModelVars, now, badDisk, tasks, nextUuid >>

\* server lines 239-245: Workflow::from_id
WorkflowFromId ==
    /\ spc = "load"
    /\ runs[cur].workflow_ok
    /\ spc' = "update"
    /\ UNCHANGED << runModelVars, now, badDisk, file, disk, attempted, runs,
                    sched, tasks, cur, nextUuid, dbFails >>

\* server lines 241-244: the workflow cannot be loaded, logged, continue
WorkflowFromIdFail ==
    /\ spc = "load"
    /\ dbFails < MaxDbFails
    /\ dbFails' = dbFails + 1
    /\ spc' = "loop"
    /\ UNCHANGED << runModelVars, now, badDisk, file, disk, attempted, runs,
                    sched, tasks, cur, nextUuid >>

\* server lines 241-244: the workflow of the run cannot be loaded at all (its
\* row is missing or its JSON does not parse), logged, continue
WorkflowFromIdBroken ==
    /\ spc = "load"
    /\ ~runs[cur].workflow_ok
    /\ spc' = "loop"
    /\ UNCHANGED << runModelVars, now, badDisk, file, disk, attempted, runs,
                    sched, tasks, cur, nextUuid, dbFails >>

\* server line 247: update_status(RUNNING)
UpdateStatusRunning ==
    /\ spc = "update"
    /\ runs' = [runs EXCEPT ![cur].status = AsStr(RUNNING)]
    /\ spc' = "spawn"
    /\ UNCHANGED << runModelVars, now, badDisk, file, disk, attempted, sched,
                    tasks, cur, nextUuid, dbFails >>

\* server lines 247-250: the update fails, logged, continue
UpdateStatusFail ==
    /\ spc = "update"
    /\ dbFails < MaxDbFails
    /\ dbFails' = dbFails + 1
    /\ spc' = "loop"
    /\ UNCHANGED << runModelVars, now, badDisk, file, disk, attempted, runs,
                    sched, tasks, cur, nextUuid >>

\* server lines 252-256: tokio::spawn of the run task, not awaited
SpawnTask ==
    /\ spc = "spawn"
    /\ tasks' = [tasks EXCEPT ![cur] = tasks[cur] + 1]
    /\ spc' = "loop"
    /\ UNCHANGED << runModelVars, now, badDisk, file, disk, attempted, runs,
                    sched, cur, nextUuid, dbFails >>

\* Workflow::run of a spawned task, a wave (lines 316-330): the run row is not
\* CANCEL, the row of an artifact is inserted and the run row written RUN
TaskWave(r) ==
    /\ tasks[r] > 0
    /\ runs[r].status # "CANCEL"
    /\ nextUuid <= MaxUuid
    /\ \E out \in BOOLEAN :
          file' = Append(file, [uuid |-> nextUuid, run_id |-> r,
                                expires |-> IF out THEN Null ELSE now + Hour])
    /\ disk' = disk \cup { nextUuid }
    /\ nextUuid' = nextUuid + 1
    /\ runs' = [runs EXCEPT ![r].status = "RUN"]
    /\ UNCHANGED << runModelVars, now, badDisk, attempted, sched, tasks, spc,
                    cur, dbFails >>

\* Workflow::run of a spawned task returns Ok (line 333: DONE)
TaskDone(r) ==
    /\ tasks[r] > 0
    /\ runs' = [runs EXCEPT ![r].status = "DONE"]
    /\ tasks' = [tasks EXCEPT ![r] = tasks[r] - 1]
    /\ UNCHANGED << runModelVars, now, badDisk, file, disk, attempted, sched,
                    spc, cur, nextUuid, dbFails >>

\* Workflow::run of a spawned task returns the error of a node (line 304: FAIL)
TaskFail(r) ==
    /\ tasks[r] > 0
    /\ runs' = [runs EXCEPT ![r].status = "FAIL"]
    /\ tasks' = [tasks EXCEPT ![r] = tasks[r] - 1]
    /\ UNCHANGED << runModelVars, now, badDisk, file, disk, attempted, sched,
                    spc, cur, nextUuid, dbFails >>

\* the steps of App::server
ServerStep ==
    \/ BootClearOldFiles
    \/ BootConnFail
    \/ ResetRunningJobs
    \/ ResetRunningJobsFail
    \/ LoopClearOldFiles
    \/ ConnFail
    \/ FindNextWaitingRun
    \/ WorkflowFromId
    \/ WorkflowFromIdFail
    \/ UpdateStatusRunning
    \/ UpdateStatusFail
    \/ SpawnTask

\* the steps of the spawned tasks
TaskStep ==
    \E r \in RunIds : TaskWave(r) \/ TaskDone(r) \/ TaskFail(r)

NextServer == ServerStep \/ TaskStep \/ Tick

SpecServer == InitServer /\ [][NextServer]_vars

\* an external actor writes CANCEL into the row of a run that a task executes
CancelRun(r) ==
    /\ tasks[r] > 0
    /\ runs[r].status # "CANCEL"
    /\ runs' = [runs EXCEPT ![r].status = "CANCEL"]
    /\ UNCHANGED << runModelVars, now, badDisk, file, disk, attempted, sched,
                    tasks, spc, cur, nextUuid, dbFails >>

\* Workflow::run of a spawned task, lines 316-319: the run row is CANCEL after
\* a wave, the task returns
TaskCancelled(r) ==
    /\ tasks[r] > 0
    /\ runs[r].status = "CANCEL"
    /\ tasks' = [tasks EXCEPT ![r] = tasks[r] - 1]
    /\ UNCHANGED << runModelVars, now, badDisk, file, disk, attempted, runs,
                    sched, spc, cur, nextUuid, dbFails >>

CancelStep == \E r \in RunIds : CancelRun(r) \/ TaskCancelled(r)

\* the scheduler loop and its tasks, with cancellation by the user
NextCancel == NextServer \/ CancelStep

SpecCancel == InitServer /\ [][NextCancel]_vars

\* the process starts with daily scheduler rows only
InitBoot == InitServer /\ \A r \in RunIds : sched[r].interval = "DAILY"

\* App::server is one async task that the runtime keeps scheduling
FairSpecServer == InitBoot /\ [][NextServer]_vars /\ WF_vars(ServerStep)

\* the process starts with daily scheduler rows, some workflows cannot be
\* loaded
InitBroken ==
    /\ InitTables(BOOLEAN)
    /\ \A r \in RunIds : sched[r].interval = "DAILY"

\* the steps of App::server when a workflow may be impossible to load
BrokenServerStep == ServerStep \/ WorkflowFromIdBroken

NextBroken == NextServer \/ WorkflowFromIdBroken

\* App::server is one async task that the runtime keeps scheduling
FairSpecBroken == InitBroken /\ [][NextBroken]_vars /\ WF_vars(BrokenServerStep)

\* ------------------------------------------------ the site metadata cache

Callers == 1 .. NumCallers

\* the value a call returned with an error
CallErr == -1

\* sm.entry(wiki).or_insert(api): an entry that exists is kept
OrInsertReplace(entry, new) == new
OrInsert(entry, new) == IF entry = NoApi THEN new ELSE entry

InitCache ==
    /\ NoTask
    /\ NoData
    /\ NoServer
    /\ file = << >>
    /\ disk = {}
    /\ now = 0
    /\ badDisk = {}
    /\ attempted = {}
    /\ site_matrix = NoApi
    /\ readers = {}
    /\ writer = 0
    /\ gpc = [c \in Callers |-> "idle"]
    /\ api = [c \in Callers |-> NoApi]
    /\ got = [c \in Callers |-> NoApi]
    /\ fetches = 0
    /\ calls = [c \in Callers |-> 0]

\* what get_site_info does not write
notCache == << taskVars, run, file, disk, now, badDisk, attempted, srvVars,
              dataVars >>

\* a task calls get_site_info for the wiki
CallGetSiteInfo(c) ==
    /\ gpc[c] = "idle"
    /\ calls[c] < MaxCalls
    /\ calls' = [calls EXCEPT ![c] = calls[c] + 1]
    /\ gpc' = [gpc EXCEPT ![c] = "read"]
    /\ UNCHANGED << notCache, site_matrix, readers, writer, api, got, fetches >>

\* line 72: self.site_matrix.read().await
ReadLock(c) ==
    /\ gpc[c] = "read"
    /\ writer = 0
    /\ readers' = readers \cup {c}
    /\ gpc' = [gpc EXCEPT ![c] = "reading"]
    /\ UNCHANGED << notCache, site_matrix, writer, api, got, fetches, calls >>

\* lines 72-73: the wiki is cached, its site info is returned
ReadHit(c) ==
    /\ gpc[c] = "reading"
    /\ site_matrix # NoApi
    /\ got' = [got EXCEPT ![c] = site_matrix]
    /\ readers' = readers \ {c}
    /\ gpc' = [gpc EXCEPT ![c] = "idle"]
    /\ UNCHANGED << notCache, site_matrix, writer, api, fetches, calls >>

\* lines 72-75: the wiki is not cached, the read guard is dropped
ReadMiss(c) ==
    /\ gpc[c] = "reading"
    /\ site_matrix = NoApi
    /\ readers' = readers \ {c}
    /\ gpc' = [gpc EXCEPT ![c] = "write"]
    /\ UNCHANGED << notCache, site_matrix, writer, api, got, fetches, calls >>

\* line 76: self.site_matrix.write().await
WriteLock(c) ==
    /\ gpc[c] = "write"
    /\ writer = 0
    /\ readers = {}
    /\ writer' = c
    /\ gpc' = [gpc EXCEPT ![c] = "fetch"]
    /\ UNCHANGED << notCache, site_matrix, readers, api, got, fetches, calls >>

\* lines 77-79: Api::new(&url).await returns the Api with its site info;
\* the map is not looked at again before the fetch
FetchApi(c) ==
    /\ gpc[c] = "fetch"
    /\ fetches' = fetches + 1
    /\ api' = [api EXCEPT ![c] = fetches + 1]
    /\ gpc' = [gpc EXCEPT ![c] = "insert"]
    /\ UNCHANGED << notCache, site_matrix, readers, writer, got, calls >>

\* lines 77-79: no web server for the wiki, or Api::new fails: the error is
\* returned and the write guard dropped
FetchFail(c) ==
    /\ gpc[c] = "fetch"
    /\ got' = [got EXCEPT ![c] = CallErr]
    /\ writer' = 0
    /\ gpc' = [gpc EXCEPT ![c] = "idle"]
    /\ UNCHANGED << notCache, site_matrix, readers, api, fetches, calls >>

\* lines 80-82: or_insert, the site info of the entry is returned
InsertEntry(c) ==
    /\ gpc[c] = "insert"
    /\ site_matrix' = OrInsert(site_matrix, api[c])
    /\ got' = [got EXCEPT ![c] = OrInsert(site_matrix, api[c])]
    /\ writer' = 0
    /\ gpc' = [gpc EXCEPT ![c] = "idle"]
    /\ UNCHANGED << notCache, readers, api, fetches, calls >>

NextCache ==
    \E c \in Callers :
        \/ CallGetSiteInfo(c)
        \/ ReadLock(c)
        \/ ReadHit(c)
        \/ ReadMiss(c)
        \/ WriteLock(c)
        \/ FetchApi(c)
        \/ FetchFail(c)
        \/ InsertEntry(c)

SpecCache == InitCache /\ [][NextCache]_vars

\* ------------------------------------------------------ the Join operations

\* what no data operation writes
progVars == << taskVars, run, file, disk, now, badDisk, attempted, srvVars,
               cacheVars >>

\* the run task, the scheduler loop and the cache are not part of the
\* specification
NoProgram ==
    /\ NoTask
    /\ NoServer
    /\ NoCache
    /\ file = << >>
    /\ disk = {}
    /\ now = 0
    /\ badDisk = {}
    /\ attempted = {}

\* the `key` argument of the operation, and the strings a key cell may hold
\* besides the empty string
JoinKey == "key"
KeyNames == { "x", "y" }
KeyStrings == { "" } \cup KeyNames

\* DataCell::PlainText(s) and DataCell::Int(i)
PlainText(s) == [kind |-> "PlainText", s |-> s]
IntCell(i) == [kind |-> "Int", i |-> i]

\* DataCell::as_key
AsKey(c) ==
    IF c.kind = "PlainText" THEN c.s
    ELSE IF c.kind = "Int" THEN ToString(c.i)
    ELSE IF c.kind = "WikiPage"
         THEN IF c.wp.prefixed_title # << >>
              THEN (IF c.wp.wiki = << >> THEN "" ELSE c.wp.wiki[1])
                   \o "::" \o c.wp.prefixed_title[1]
              ELSE (IF c.wp.wiki = << >> THEN "" ELSE c.wp.wiki[1])
                   \o "::"
                   \o (IF c.wp.ns_prefix = << >> THEN "" ELSE c.wp.ns_prefix[1])
                   \o ":"
                   \o (IF c.wp.title = << >> THEN "" ELSE c.wp.title[1])
    ELSE ""

\* DataHeader::get_col_num: the first column of that name; columns count
\* from 1 here and 0 stands for None
GetColNum(header, key) ==
    IF \E i \in 1 .. Len(header) : header[i] = key
    THEN CHOOSE i \in 1 .. Len(header) :
            header[i] = key /\ \A j \in 1 .. (i - 1) : header[j] # key
    ELSE 0

\* Vec::remove(i)
RemoveAt(s, i) == SubSeq(s, 1, i - 1) \o SubSeq(s, i + 1, Len(s))

SeqsUpTo(S, n) == UNION { [1 .. m -> S] : m \in 0 .. n }

\* a line of a file with a key column: "[]" is a line that read_row_and_key
\* turns into the empty row, any other one is the string of the key cell
RowShapes == { "[]" } \cup KeyStrings

\* an input file: its size on disk, whether its header has the key column,
\* and its data lines
FileShapes ==
    { [size |-> sz, keyed |-> TRUE, rows |-> shs] :
        sz \in 1 .. MaxFileSize, shs \in SeqsUpTo(RowShapes, MaxRows) }
    \cup
    { [size |-> sz, keyed |-> FALSE, rows |-> shs] :
        sz \in 1 .. MaxFileSize, shs \in SeqsUpTo({ "-" }, MaxRows) }

\* the rows of the f-th file: the second cell tells the rows apart
MkRow(f, j, keyed, sh) ==
    IF ~keyed THEN << IntCell(10 * f + j) >>
    ELSE IF sh = "[]" THEN << >>
    ELSE << PlainText(sh), IntCell(10 * f + j) >>

MkFile(f, shape) ==
    [size |-> shape.size,
     header |-> IF shape.keyed THEN << JoinKey, "val" >> ELSE << "val" >>,
     rows |-> [j \in 1 .. Len(shape.rows) |->
                 MkRow(f, j, shape.keyed, shape.rows[j])]]

\* files.sort_by_key(|k| k.2): a stable sort by file size
RECURSIVE SortBySize(_, _)
SortBySize(files, sz) ==
    IF sz > MaxFileSize THEN << >>
    ELSE SelectSeq(files, LAMBDA f : f.size = sz) \o SortBySize(files, sz + 1)

\* Join::get_files_with_metadata (every file can be opened)
GetFilesWithMetadataOne(files) ==
    IF Len(files) = 0 THEN [err |-> "NoInputs", files |-> << >>]
    ELSE [err |-> "", files |-> SortBySize(files, 1)]
GetFilesWithMetadata(files) ==
    IF Len(files) = 0 THEN [err |-> "NoInputs", files |-> << >>]
    ELSE IF Len(files) = 1 THEN [err |-> "SingleInput", files |-> << >>]
    ELSE [err |-> "", files |-> SortBySize(files, 1)]

\* Join::read_row_and_key
ReadRowAndKey(row, key_col_num) ==
    [row |-> row,
     key |-> IF key_col_num <= Len(row) THEN AsKey(row[key_col_num]) ELSE ""]

\* DataFile::key2row lines 194-210: the rows from the i-th on
RECURSIVE Key2RowFrom(_, _, _, _)
Key2RowFrom(rows, key_col_num, i, ret) ==
    IF i > Len(rows) THEN [err |-> "", map |-> ret]
    ELSE IF Len(rows[i]) < key_col_num THEN [err |-> "NoneValue", map |-> ret]
    ELSE IF AsKey(rows[i][key_col_num]) \in DOMAIN ret
         THEN [err |-> "DuplicateKey", map |-> ret]
    ELSE Key2RowFrom(rows, key_col_num, i + 1,
                     ret @@ (AsKey(rows[i][key_col_num]) :> i))

\* DataFile::key2row
Key2Row(f, key) ==
    IF GetColNum(f.header, key) = 0
    THEN [err |-> "MissingKeyColumn", map |-> [k \in {} |-> 0]]
    ELSE Key2RowFrom(f.rows, GetColNum(f.header, key), 1, [k \in {} |-> 0])

\* a result Err(..): `created` tells whether an output file was opened
Failed(err, created) ==
    [err |-> err, created |-> created, header |-> << >>, rows |-> << >>]

\* inner_join_on_key lines 94-109: the rows of one file from the i-th on
RECURSIVE JoinRows(_, _, _, _, _)
JoinRows(rows, key_col_num, key2row, i, acc) ==
    IF i > Len(rows) THEN acc
    ELSE LET rk == ReadRowAndKey(rows[i], key_col_num) IN
         IF rk.row = << >> \/ rk.key = "" \/ rk.key \notin DOMAIN key2row
         THEN JoinRows(rows, key_col_num, key2row, i + 1, acc)
         ELSE JoinRows(rows, key_col_num, key2row, i + 1,
                [acc EXCEPT
                   !.keys_found[rk.key] = @ + 1,
                   !.rows[key2row[rk.key]] = @ \o RemoveAt(rk.row, key_col_num)])

\* inner_join_on_key lines 87-110: the files after the main file
RECURSIVE JoinFiles(_, _, _, _)
JoinFiles(files, key, key2row, acc) ==
    IF files = << >> THEN [err |-> "", acc |-> acc]
    ELSE IF GetColNum(Head(files).header, key) = 0
         THEN [err |-> "MissingKeyColumn", acc |-> acc]
    ELSE JoinFiles(Tail(files), key, key2row,
            JoinRows(Head(files).rows, GetColNum(Head(files).header, key),
                     key2row, 1,
                     [acc EXCEPT !.header =
                        @ \o RemoveAt(Head(files).header,
                                      GetColNum(Head(files).header, key))]))

\* the orders in which a HashMap may iterate over its keys
KeyOrders ==
    { o \in [1 .. Cardinality(KeyStrings) -> KeyStrings] :
        \A i, j \in DOMAIN o : i # j => o[i] # o[j] }

\* Join::inner_join_on_key; `order` is the iteration order of keys_found
InnerJoinOnKey(files, key, order) ==
    LET gf == GetFilesWithMetadata(files) IN
    IF gf.err # "" THEN Failed(gf.err, FALSE)
    ELSE
    LET main_file == Head(gf.files)
        data_files == Tail(gf.files)
        k2r == Key2Row(main_file, key)
    IN
    IF k2r.err # "" THEN Failed(k2r.err, FALSE)
    ELSE
    LET jf == JoinFiles(data_files, key, k2r.map,
                        [keys_found |-> [k \in KeyStrings |-> 0],
                         rows |-> main_file.rows,
                         header |-> main_file.header])
    IN
    IF jf.err # "" THEN Failed(jf.err, FALSE)
    ELSE
    LET keys_in_all_files ==
            SelectSeq(order, LAMBDA k : /\ k \in DOMAIN k2r.map
                                        /\ jf.acc.keys_found[k] = Len(data_files))
    IN
    [err |-> "", created |-> TRUE, header |-> jf.acc.header,
     rows |-> [i \in 1 .. Len(keys_in_all_files) |->
                 jf.acc.rows[k2r.map[keys_in_all_files[i]]]]]

\* merge_unique lines 65-75: the rows of one file from the i-th on
RECURSIVE MergeRowsAll(_, _, _, _)
MergeRowsAll(rows, key_col_num, i, acc) ==
    IF i > Len(rows) THEN acc
    ELSE LET rk == ReadRowAndKey(rows[i], key_col_num) IN
         IF rk.row = << >> \/ rk.key = ""
         THEN MergeRowsAll(rows, key_col_num, i + 1, acc)
         ELSE MergeRowsAll(rows, key_col_num, i + 1,
                [had_key |-> acc.had_key \cup { rk.key },
                 rows |-> Append(acc.rows, rk.row)])
RECURSIVE MergeRows(_, _, _, _)
MergeRows(rows, key_col_num, i, acc) ==
    IF i > Len(rows) THEN acc
    ELSE LET rk == ReadRowAndKey(rows[i], key_col_num) IN
         IF rk.row = << >> \/ rk.key = "" \/ rk.key \in acc.had_key
         THEN MergeRows(rows, key_col_num, i + 1, acc)
         ELSE MergeRows(rows, key_col_num, i + 1,
                [had_key |-> acc.had_key \cup { rk.key },
                 rows |-> Append(acc.rows, rk.row)])

\* merge_unique lines 52-76: the files from the first not yet read on
RECURSIVE MergeFiles(_, _, _, _)
MergeFiles(files, key, new_header, acc) ==
    IF files = << >>
    THEN [err |-> "", created |-> TRUE, header |-> new_header, rows |-> acc.rows]
    ELSE IF new_header # Head(files).header
         THEN Failed("DifferentHeader", TRUE)
    ELSE IF GetColNum(new_header, key) = 0
         THEN Failed("MissingKeyColumn", TRUE)
    ELSE MergeFiles(Tail(files), key, new_header,
            MergeRows(Head(files).rows, GetColNum(new_header, key), 1, acc))

\* Join::merge_unique: the output file is opened before the inputs are read
MergeUnique(files, key) ==
    LET gf == GetFilesWithMetadata(files) IN
    IF gf.err # "" THEN Failed(gf.err, FALSE)
    ELSE MergeFiles(gf.files, key, Head(gf.files).header,
                    [had_key |-> {}, rows |-> << >>])

\* no operation has returned yet
NoOutput == << >>

InitJoin ==
    /\ NoProgram
    /\ NoFilter
    /\ NoFile
    /\ NoWiki
    /\ \E n \in 0 .. MaxFiles :
         \E shapes \in [1 .. n -> FileShapes] :
            jfiles = [f \in 1 .. n |-> MkFile(f, shapes[f])]
    /\ jres = NoOutput

\* a Join node with mode inner_join_on_key runs on the files
CallInnerJoinOnKey ==
    /\ jres = NoOutput
    /\ \E order \in KeyOrders :
         jres' = [op |-> "inner_join_on_key",
                  res |-> InnerJoinOnKey(jfiles, JoinKey, order)]
    /\ UNCHANGED << progVars, jfiles, filterVars, fileVars, wikiVars >>

\* a Join node with mode merge_unique runs on the files
CallMergeUnique ==
    /\ jres = NoOutput
    /\ jres' = [op |-> "merge_unique", res |-> MergeUnique(jfiles, JoinKey)]
    /\ UNCHANGED << progVars, jfiles, filterVars, fileVars, wikiVars >>

NextJoin == CallInnerJoinOnKey \/ CallMergeUnique

SpecJoin == InitJoin /\ [][NextJoin]_vars

\* an input file with the key column first and one to MaxCols other columns;
\* every data line has a cell per column and a non-empty key
ColumnNames == << "val", "val2" >>
WideShapes ==
    { [size |-> sz, cols |-> c, rows |-> shs] :
        sz \in 1 .. MaxFileSize, c \in 1 .. MaxCols,
        shs \in SeqsUpTo(KeyNames, MaxRows) }

MkWideFile(f, shape) ==
    [size |-> shape.size,
     header |-> << JoinKey >> \o SubSeq(ColumnNames, 1, shape.cols),
     rows |-> [j \in 1 .. Len(shape.rows) |->
                 << PlainText(shape.rows[j]) >>
                 \o [c \in 1 .. shape.cols |-> IntCell(100 * c + 10 * f + j)]]]

InitJoinWide ==
    /\ NoProgram
    /\ NoFilter
    /\ NoFile
    /\ NoWiki
    /\ \E n \in 2 .. MaxFiles :
         \E shapes \in [1 .. n -> WideShapes] :
            jfiles = [f \in 1 .. n |-> MkWideFile(f, shapes[f])]
    /\ jres = NoOutput

\* inner_join_on_key on inputs with different numbers of columns
SpecJoinWide == InitJoinWide /\ [][CallInnerJoinOnKey]_vars

\* ---------------------------------------------- artifacts, Filter, FilterSort

\* Option<T>
None == << >>
Some(x) == << x >>
UnwrapOr(o, d) == IF o = None THEN d ELSE o[1]

\* DataCell::Blank and DataCell::WikiPage(wiki_page)
Blank == [kind |-> "Blank"]
WikiPageCell(wiki_page) == [kind |-> "WikiPage", wp |-> wiki_page]

\* json!(header): an object; json!(row): an array
JsonHeader(header) == [array |-> FALSE, val |-> header]
JsonRow(row) == [array |-> TRUE, val |-> row]

\* DataFile::new_output_file: no line written
NewOutputFile == [lines |-> << >>, row_counter |-> 0]

\* DataFile::write_json_row
WriteJsonRow(file_, v) ==
    IF v.array /\ v.val = << >> THEN file_
    ELSE [lines |-> Append(file_.lines, v),
          row_counter |-> file_.row_counter + 1]

\* DataFile::details (the field rows)
Details(file_) == file_.row_counter

\* DataFile::load_header: the first line
LoadHeader(file_) == file_.lines[1].val

\* the lines DataFile::read_row returns after the header
DataRows(file_) == [i \in 1 .. (Len(file_.lines) - 1) |-> file_.lines[i + 1].val]

\* an artifact: the header written, then the rows
RECURSIVE WriteRows(_, _)
WriteRows(file_, rows) ==
    IF rows = << >> THEN file_
    ELSE WriteRows(WriteJsonRow(file_, JsonRow(Head(rows))), Tail(rows))

MkDataFile(header, rows) ==
    WriteRows(WriteJsonRow(NewOutputFile, JsonHeader(header)), rows)

\* the order of String on the strings that occur as keys and values
StrRank(s) ==
    CASE s = "" -> 0
      [] s = "(" -> 1
      [] s = "0" -> 2
      [] s = "1" -> 3
      [] s = ":::" -> 4
      [] s = ":::x" -> 5
      [] s = "x" -> 6
      [] s = "y" -> 7

\* DataCell::to_sub_key
ToSubKey(c, subkey) ==
    IF c.kind # "WikiPage" \/ subkey = None THEN Blank
    ELSE LET f == CASE subkey[1] = "title" -> c.wp.title
                    [] subkey[1] = "prefixed_title" -> c.wp.prefixed_title
                    [] subkey[1] = "ns_prefix" -> c.wp.ns_prefix
                    [] subkey[1] = "wiki" -> c.wp.wiki
                    [] subkey[1] = "ns_id" -> c.wp.ns_id
                    [] subkey[1] = "page_id" -> c.wp.page_id
                    [] OTHER -> None
         IN IF f = None THEN Blank
            ELSE IF subkey[1] \in { "ns_id", "page_id" } THEN IntCell(f[1])
            ELSE PlainText(f[1])

\* impl PartialEq for DataCell (no WikiPage cell is compared)
CellEq(a, b) ==
    IF a.kind = "PlainText" /\ b.kind = "PlainText" THEN a.s = b.s
    ELSE IF a.kind = "Int" /\ b.kind = "Int" THEN a.i = b.i
    ELSE a.kind = b.kind

Ordering(x, y) == IF x < y THEN "Less" ELSE IF x = y THEN "Equal" ELSE "Greater"

\* DataCell::Float: an f64 that is NaN, or a number of halves
FloatCell(nan, h) == [kind |-> "Float", nan |-> nan, h |-> h]

\* i as f64
AsF64(i) == [nan |-> FALSE, h |-> 2 * i]

\* f64::partial_cmp: NaN compares with nothing
FloatCmp(x, y) == IF x.nan \/ y.nan THEN "None" ELSE Ordering(x.h, y.h)

\* impl PartialOrd for DataCell: partial_cmp
PartialCmp(a, b) ==
    IF a.kind = "Blank" /\ b.kind = "Blank" THEN "Equal"
    ELSE IF a.kind = "Blank" THEN "Less"
    ELSE IF b.kind = "Blank" THEN "Greater"
    ELSE IF a.kind = "PlainText" /\ b.kind = "PlainText"
         THEN Ordering(StrRank(a.s), StrRank(b.s))
    ELSE IF a.kind = "Int" /\ b.kind = "Int" THEN Ordering(a.i, b.i)
    ELSE IF a.kind = "Int" /\ b.kind = "Float" THEN FloatCmp(AsF64(a.i), b)
    ELSE IF a.kind = "Float" /\ b.kind = "Int" THEN FloatCmp(a, AsF64(b.i))
    ELSE IF a.kind = "Float" /\ b.kind = "Float" THEN FloatCmp(a, b)
    ELSE "None"

\* the operators of FilterOperator and the values of Filter.value: a word, a
\* number, and a string that is no regular expression
Operators ==
    { "Equal", "Unequal", "LargerThan", "SmallerThan", "LargerOrEqualThan",
      "SmallerOrEqualThan", "Regexp" }
FilterValues == { "x", "1", "(" }

\* self.value.parse::<i64>().unwrap_or(0)
ParseI64(value) == IF value = "1" THEN 1 ELSE 0

\* RegexBuilder::new(value).build() is Ok
RegexValid(value) == value # "("

\* Regex::is_match for a pattern of one literal character and a string of at
\* most one character
IsMatch(value, s) == s = value

\* Filter::process lines 65-72: the cell the row is judged by
FilterCellAsIs(row, col_num, subkey) ==
    IF col_num > Len(row) THEN Blank
    ELSE IF row[col_num].kind = "WikiPage" /\ subkey # None
         THEN ToSubKey(row[col_num], subkey)
    ELSE row[col_num]
FilterCell(row, col_num, subkey) ==
    IF col_num > Len(row) THEN Blank
    ELSE IF row[col_num].kind = "WikiPage" THEN ToSubKey(row[col_num], subkey)
    ELSE row[col_num]

\* Filter::process lines 76-86
VCell(cell, value) ==
    IF cell.kind = "PlainText" THEN PlainText(value)
    ELSE IF cell.kind = "Int" THEN IntCell(ParseI64(value))
    ELSE Blank

\* Filter::process lines 90-98
DoesMatch(operator, value, cell) ==
    CASE operator = "Equal" -> CellEq(VCell(cell, value), cell)
      [] operator = "Unequal" -> ~CellEq(VCell(cell, value), cell)
      [] operator = "LargerThan" -> PartialCmp(VCell(cell, value), cell) = "Less"
      [] operator = "SmallerThan" ->
            PartialCmp(VCell(cell, value), cell) = "Greater"
      [] operator = "LargerOrEqualThan" ->
            PartialCmp(VCell(cell, value), cell) \in { "Less", "Equal" }
      [] operator = "SmallerOrEqualThan" ->
            PartialCmp(VCell(cell, value), cell) \in { "Greater", "Equal" }
      [] operator = "Regexp" -> IsMatch(value, AsKey(cell))

\* Filter::process line 100
KeepRowIfMatch(does_match, remove_matching) == does_match
KeepRow(does_match, remove_matching) == does_match = ~remove_matching

\* Filter::process lines 59-103: the rows from the i-th on
RECURSIVE FilterRows(_, _, _, _, _, _)
FilterRows(rows, col_num, f, remove_matching, i, df_out) ==
    IF i > Len(rows) THEN df_out
    ELSE FilterRows(rows, col_num, f, remove_matching, i + 1,
            IF KeepRow(DoesMatch(f.operator, f.value,
                                 FilterCell(rows[i], col_num, f.subkey)),
                       remove_matching)
            THEN WriteJsonRow(df_out, JsonRow(rows[i]))
            ELSE df_out)

\* a result Err(..) of a filter
FailedOp(err, created) ==
    [err |-> err, created |-> created, file |-> NewOutputFile, rows |-> 0]

\* a result Ok(df_out.details()), with the file written
OkOp(df_out) ==
    [err |-> "", created |-> TRUE, file |-> df_out, rows |-> Details(df_out)]

\* Filter::process (the input file opens and its lines parse)
FilterProcess(df_in, f, remove_matching) ==
    IF f.operator = "Regexp" /\ ~RegexValid(f.value)
    THEN FailedOp("InvalidRegexp", FALSE)
    ELSE IF GetColNum(LoadHeader(df_in), f.key) = 0
         THEN FailedOp("MissingKeyColumn", TRUE)
    ELSE OkOp(FilterRows(DataRows(df_in), GetColNum(LoadHeader(df_in), f.key),
                         f, remove_matching, 1,
                         WriteJsonRow(NewOutputFile,
                                      JsonHeader(LoadHeader(df_in)))))

\* FilterSort::process lines 271-277: the sort key of a row
SortKey(row, col_num) ==
    IF col_num > Len(row) THEN "" ELSE AsKey(row[col_num])

MaxRank == 7

\* rows.sort_by_cached_key: a stable sort by the sort key
RECURSIVE SortByKey(_, _, _)
SortByKey(rows, col_num, r) ==
    IF r > MaxRank THEN << >>
    ELSE SelectSeq(rows, LAMBDA row : StrRank(SortKey(row, col_num)) = r)
         \o SortByKey(rows, col_num, r + 1)

\* rows.reverse()
Reverse(s) == [i \in 1 .. Len(s) |-> s[Len(s) + 1 - i]]

\* FilterSort::process lines 278-280
ReverseIfNever(rows, reverse) == rows
ReverseIf(rows, reverse) == IF reverse THEN Reverse(rows) ELSE rows

\* FilterSort::process (the input file opens and its lines parse)
FilterSortProcess(df_in, f) ==
    IF GetColNum(LoadHeader(df_in), f.key) = 0
    THEN FailedOp("MissingKeyColumn", FALSE)
    ELSE OkOp(WriteRows(WriteJsonRow(NewOutputFile, JsonHeader(LoadHeader(df_in))),
                        ReverseIf(SortByKey(DataRows(df_in),
                                            GetColNum(LoadHeader(df_in), f.key), 0),
                                  f.reverse)))

\* the pages of the WikiPage cells of a filter's input
FilterPages ==
    { [title |-> t, prefixed_title |-> None, ns_id |-> n, page_id |-> None,
       ns_prefix |-> None, wiki |-> None] :
        t \in { None, Some("x") }, n \in { None, Some(0) } }

\* the cells of the key column of a filter's input
FilterCells ==
    { PlainText(s) : s \in KeyStrings }
    \cup { IntCell(i) : i \in 0 .. 1 }
    \cup { Blank }
    \cup { WikiPageCell(p) : p \in FilterPages }

\* the rows of a filter's input: the key column is the second one, and a row
\* may end before it
FilterInputRows ==
    { << PlainText("v") >> } \cup { << PlainText("v"), c >> : c \in FilterCells }

\* the parameters of a Filter and of a FilterSort node
FilterOps ==
    { [kind |-> "Filter", key |-> k, subkey |-> sk, operator |-> o, value |-> v] :
        k \in { JoinKey, "nokey" },
        sk \in { None, Some("title"), Some("ns_id") },
        o \in Operators, v \in FilterValues }
    \cup
    { [kind |-> "FilterSort", key |-> k, reverse |-> rv] :
        k \in { JoinKey, "nokey" }, rv \in BOOLEAN }

InitFilter ==
    /\ NoProgram
    /\ NoJoin
    /\ NoFile
    /\ NoWiki
    /\ \E rows \in SeqsUpTo(FilterInputRows, MaxRows), f \in FilterOps :
         fin = [file |-> MkDataFile(<< "val", JoinKey >>, rows), op |-> f]
    /\ fout = [i \in 1 .. 2 |-> NoOutput]

\* a Filter node runs on the file: the first run with remove_matching =
\* false, the second run with remove_matching = true
CallFilter(i) ==
    /\ fin.op.kind = "Filter"
    /\ fout[i] = NoOutput
    /\ fout' = [fout EXCEPT ![i] = FilterProcess(fin.file, fin.op, i = 2)]
    /\ UNCHANGED << progVars, joinVars, fin, fileVars, wikiVars >>

\* the cells that are compared: of every kind, the Float cells whole, half
\* and NaN (Filter.value parses to an f64, filter.rs line 44)
CmpCells ==
    FilterCells
    \cup { FloatCell(FALSE, h) : h \in 0 .. 2 }
    \cup { FloatCell(TRUE, 0) }

InitCmp ==
    /\ NoProgram
    /\ NoJoin
    /\ NoFile
    /\ NoWiki
    /\ fin \in CmpCells \X CmpCells
    /\ fout = NoOutput

\* the first cell is compared with the second
CallPartialCmp ==
    /\ fout = NoOutput
    /\ fout' = [ord |-> PartialCmp(fin[1], fin[2])]
    /\ UNCHANGED << progVars, joinVars, fin, fileVars, wikiVars >>

SpecCmp == InitCmp /\ [][CallPartialCmp]_vars

\* a FilterSort node runs on the file
CallFilterSort ==
    /\ fin.op.kind = "FilterSort"
    /\ fout[1] = NoOutput
    /\ fout' = [fout EXCEPT ![1] = FilterSortProcess(fin.file, fin.op)]
    /\ UNCHANGED << progVars, joinVars, fin, fileVars, wikiVars >>

\* a FilterSort node with the same parameters runs on the output of the first
CallFilterSortAgain ==
    /\ fin.op.kind = "FilterSort"
    /\ fout[1] # NoOutput
    /\ fout[1].err = ""
    /\ fout[2] = NoOutput
    /\ fout' = [fout EXCEPT ![2] = FilterSortProcess(fout[1].file, fin.op)]
    /\ UNCHANGED << progVars, joinVars, fin, fileVars, wikiVars >>

NextFilter ==
    \/ \E i \in 1 .. 2 : CallFilter(i)
    \/ CallFilterSort
    \/ CallFilterSortAgain

SpecFilter == InitFilter /\ [][NextFilter]_vars

\* --------------------------------------------------- writing an artifact

\* the rows an operation may hand to write_json_row: those of a filter's
\* input and the row that encodes to the empty array
WrittenRows == FilterInputRows \cup { << >> }

\* DataFile::new_output_file; `calls` are the values write_json_row was
\* called with so far
InitFile ==
    /\ NoProgram
    /\ NoJoin
    /\ NoFilter
    /\ NoWiki
    /\ df = [out |-> NewOutputFile, calls |-> << >>]

\* the header is written first (e.g. Filter::process line 50)
WriteHeader ==
    /\ df.calls = << >>
    /\ df' = [out |-> WriteJsonRow(df.out, JsonHeader(<< "val", JoinKey >>)),
              calls |-> << JsonHeader(<< "val", JoinKey >>) >>]
    /\ UNCHANGED << progVars, joinVars, filterVars, wikiVars >>

\* a data row is written (e.g. Filter::process line 101)
WriteRow(row) ==
    /\ df.calls # << >>
    /\ Len(df.calls) <= MaxRows
    /\ df' = [out |-> WriteJsonRow(df.out, JsonRow(row)),
              calls |-> Append(df.calls, JsonRow(row))]
    /\ UNCHANGED << progVars, joinVars, filterVars, wikiVars >>

NextFile == WriteHeader \/ \E row \in WrittenRows : WriteRow(row)

SpecFile == InitFile /\ [][NextFile]_vars

\* ------------------------------------------------- WikiPage::fill_missing

\* parts.join(":")
RECURSIVE JoinColon(_)
JoinColon(parts) ==
    IF parts = << >> THEN ""
    ELSE IF Len(parts) = 1 THEN parts[1]
    ELSE parts[1] \o ":" \o JoinColon(Tail(parts))

\* the titles that occur, as what split(':') makes of them: a name, a
\* namespace prefix and a name, or a prefix and a name with a colon in it
NsPrefixes == { "Cat", "X" }
PageNames == { "A", "A b", "A_b" }
PartLists ==
    { << n >> : n \in PageNames }
    \cup { << ns, n >> : ns \in NsPrefixes, n \in PageNames }
    \cup { << ns, n, "A" >> : ns \in NsPrefixes, n \in PageNames }

\* the letters and digits of the entity ids that occur in URLs
IdLetters == { "Q", "P", "L" }
IdDigits == { "", "4", "42" }
EntityIds == { l \o d : l \in IdLetters, d \in IdDigits }

\* prefixed_title.split(':').collect(); an entity id has no colon
Split(str) ==
    IF str \in EntityIds THEN << str >>
    ELSE CHOOSE parts \in PartLists : JoinColon(parts) = str

\* str.replace(' ', "_")
ReplaceSpaces(str) ==
    JoinColon([i \in DOMAIN Split(str) |->
                 IF Split(str)[i] = "A b" THEN "A_b" ELSE Split(str)[i]])

\* fill_missing lines 46-51
Underscored(o) == IF o = None THEN None ELSE Some(ReplaceSpaces(o[1]))

\* fill_missing lines 55-74; ns_id_answer is what get_namespace_id returns
FillNamespaceId(page, ns_id_answer) ==
    IF page.ns_id # None \/ page.prefixed_title = None THEN page
    ELSE LET parts == Split(page.prefixed_title[1])
             ns_id == IF Len(parts) = 1 THEN Some(0) ELSE ns_id_answer
         IN IF ns_id = None THEN page
            ELSE IF ns_id = Some(0)
                 THEN [page EXCEPT !.ns_id = ns_id,
                                   !.title = Some(JoinColon(parts))]
            ELSE [page EXCEPT !.ns_id = ns_id,
                              !.ns_prefix = Some(parts[1]),
                              !.title = Some(JoinColon(Tail(parts)))]

\* fill_missing lines 76-82; ns_name_answer is what get_namespace_name returns
FillNamespacePrefix(page, ns_name_answer) ==
    IF page.ns_prefix = None /\ page.ns_id # None /\ ns_name_answer # None
    THEN [page EXCEPT !.ns_prefix = ns_name_answer]
    ELSE page

\* fill_missing lines 86-98
FillPrefixedTitle(page) ==
    IF /\ page.prefixed_title = None
       /\ page.title # None
       /\ page.ns_prefix # None
       /\ page.title # Some("")
    THEN [page EXCEPT !.prefixed_title =
            IF page.ns_prefix = Some("") THEN page.title
            ELSE Some(page.ns_prefix[1] \o ":" \o page.title[1])]
    ELSE page

\* WikiPage::fill_missing
FillMissing(page, ns_id_answer, ns_name_answer) ==
    LET page1 == [page EXCEPT !.title = Underscored(page.title),
                              !.prefixed_title = Underscored(page.prefixed_title)]
        page2 == IF page1.wiki # None /\ page1.wiki # Some("")
                 THEN FillNamespacePrefix(FillNamespaceId(page1, ns_id_answer),
                                          ns_name_answer)
                 ELSE page1
    IN FillPrefixedTitle(page2)

\* what App::get_namespace_id and App::get_namespace_name may return: None
\* when the site info cannot be fetched, else an id (0 for an unknown name),
\* and None or the local name of the namespace
NsIdAnswers == { None, Some(0), Some(14) }
NsNameAnswers == { None, Some(""), Some("Kat") }

\* the pages fill_missing is called on (DataCell::from_value line 108): the
\* column's default page with one element set from the row
WikiPages ==
    { [title |-> t, prefixed_title |-> pt, ns_id |-> n, page_id |-> None,
       ns_prefix |-> np, wiki |-> w] :
        t \in { None, Some("A") },
        pt \in { None } \cup { Some(JoinColon(parts)) : parts \in PartLists },
        n \in { None, Some(0), Some(14) },
        np \in { None, Some("Cat") },
        w \in { None, Some(""), Some("dewiki") } }

InitWiki ==
    /\ NoProgram
    /\ NoJoin
    /\ NoFilter
    /\ NoFile
    /\ wp \in WikiPages
    /\ wout = NoOutput

CallFillMissing ==
    /\ wout = NoOutput
    /\ \E a \in NsIdAnswers, b \in NsNameAnswers : wout' = FillMissing(wp, a, b)
    /\ UNCHANGED << progVars, joinVars, filterVars, fileVars, wp >>

NextWiki == CallFillMissing

SpecWiki == InitWiki /\ [][NextWiki]_vars

\* the URLs that occur, in the parts the expression tells apart
Urls ==
    [scheme : { "http", "https", "ftp" },
     host : { "www.wikidata.org", "www-wikidata-org", "commons.wikimedia.org" },
     path : { "/entity/", "/wiki/" },
     letter : IdLetters,
     digits : IdDigits,
     rest : { "", "#x" }]

\* RE_WIKIDATA_ITEM = ^https?://www.wikidata.org/entity/(Q\d+)$ finds a match
\* (an unescaped dot stands for any character)
ReWikidataItem(url) ==
    /\ url.scheme \in { "http", "https" }
    /\ url.host \in { "www.wikidata.org", "www-wikidata-org" }
    /\ url.path = "/entity/"
    /\ url.letter = "Q"
    /\ url.digits # ""
    /\ url.rest = ""

\* DataCell::entity_from_url: None, or the namespace id and the page title
EntityFromUrl(url) ==
    IF ~ReWikidataItem(url) THEN None
    ELSE LET title == url.letter \o url.digits
         IN IF url.letter = "Q" THEN Some([ns_id |-> 0, title |-> title])
            ELSE IF url.letter = "P" THEN Some([ns_id |-> 120, title |-> title])
            ELSE None

\* DataCell::from_value for a WikiPage column and element entity_url, before
\* fill_missing
SetEntityUrl(page, url) ==
    IF EntityFromUrl(url) = None THEN page
    ELSE [page EXCEPT !.ns_id = Some(EntityFromUrl(url)[1].ns_id),
                      !.title = Some(EntityFromUrl(url)[1].title),
                      !.prefixed_title = Some(EntityFromUrl(url)[1].title)]

\* the default pages of a WikiPage column
ColumnPages ==
    { [title |-> None, prefixed_title |-> None, ns_id |-> n, page_id |-> None,
       ns_prefix |-> None, wiki |-> w] :
        n \in { None, Some(14) }, w \in { None, Some("wikidatawiki") } }

InitUrl ==
    /\ NoProgram
    /\ NoJoin
    /\ NoFilter
    /\ NoFile
    /\ wp \in [url : Urls, page : ColumnPages]
    /\ wout = NoOutput

\* DataCell::from_value(value, col_header, "entity_url")
CallFromValue ==
    /\ wout = NoOutput
    /\ \E a \in NsIdAnswers, b \in NsNameAnswers :
         wout' = FillMissing(SetEntityUrl(wp.page, wp.url), a, b)
    /\ UNCHANGED << progVars, joinVars, filterVars, fileVars, wp >>

SpecUrl == InitUrl /\ [][CallFromValue]_vars

\* ------------------------------------------------------- graph notions

\* the sources of the edges that target a node of S
Preds(E, S) == { e[1] : e \in { e \in E : e[2] \in S } }

RECURSIVE Closure(_, _)
Closure(E, S) ==
    IF Preds(E, S) \subseteq S THEN S ELSE Closure(E, S \cup Preds(E, S))

\* every node from which n is reached through one or more edges
Ancestors(E, n) == Closure(E, Preds(E, {n}))

Acyclic(E) == \A n \in Nodes : n \notin Ancestors(E, n)

\* the file table holds a row with this node_id and uuid
HasRow(rows, n, uuid) ==
    \E i \in 1 .. Len(rows) : rows[i].node_id = n /\ rows[i].uuid = uuid

RowNodes(rows) == { rows[i].node_id : i \in 1 .. Len(rows) }

\* ----------------------------------------------------------------- claims

\* C1: while the nodes of a wave execute, each of them is WAITING and the
\* source of every edge that targets it is DONE, with the file row of the
\* source's uuid in the file table.
C1_DispatchOnlyReady ==
    pc = "running" =>
        \A n \in nodes_to_run :
            /\ node_status[n].status = WAITING
            /\ \A e \in edges : e[2] = n =>
                  /\ node_status[e[1]].status = DONE
                  /\ HasRow(file, e[1], node_status[e[1]].uuid)

\* a node is executing whose predecessor was executed by an earlier wave
C1_Witness ==
    /\ pc = "running"
    /\ \E e \in edges : e[2] \in nodes_to_run /\ dispatched[e[1]] = 1

\* C2: past join_all no node of the wave is pending, a new wave is computed
\* only when every node of the current one has finished, a wave with an
\* error ends in the run row written FAIL and the loop in "failed", and from
\* "failed" nothing is dispatched any more.
C2_BarrierFailFast ==
    /\ [](pc \in { "insert", "loop", "done", "failed", "cancelled" } =>
            \A n \in nodes_to_run : results[n].state \in { "ok", "err" })
    /\ [][computed' # computed =>
            \A n \in nodes_to_run : results[n].state # "pending"]_vars
    /\ [][(pc = "running" /\ pc' # "running" /\ HasError(results, nodes_to_run)) =>
            (pc' = "failed" /\ run'.status = "FAIL")]_vars
    /\ [][pc = "failed" =>
            (pc' = "failed" /\ dispatched' = dispatched /\ computed' = computed)]_vars

\* a wave of a node that succeeded and one that failed has ended the run,
\* and a node waits that is never started
C2_Witness ==
    /\ pc = "failed"
    /\ run.status = "FAIL"
    /\ \E a, b \in nodes_to_run : results[a].state = "ok" /\ results[b].state = "err"
    /\ \E n \in Nodes : dispatched[n] = 0 /\ node_status[n].status = WAITING

\* the nodes of the wave that have not finished
Pending == { n \in nodes_to_run : results[n].state = "pending" }

\* a measure of the work left to the run task
Variant ==
    IF pc = "start" THEN (NumNodes + 1) * (NumNodes + 4)
    ELSE (NumNodes - Cardinality(DoneSet(node_status))) * (NumNodes + 4)
         + (CASE pc = "loop" -> NumNodes + 3
              [] pc = "running" -> 2 + Cardinality(Pending)
              [] pc = "insert" -> 1
              [] OTHER -> 0)

\* C3: the run loop terminates, for every edge set and so for every acyclic
\* one: while the task is in the loop it has a next step, every step of the
\* task lowers a natural-valued measure, and get_next_nodes_to_run is called
\* at most once per node and once more; and for an acyclic edge set, when no
\* node failed and nobody cancelled, the loop ends in "done" with every node
\* DONE and the run row written DONE with all nodes done.
C3_Terminates ==
    /\ [](pc \in { "start", "loop", "running", "insert" } \cup Ended)
    /\ [](pc = "loop" => ENABLED (Dispatch \/ Finish))
    /\ [](pc = "running" => ENABLED ((\E n \in Nodes : NodeOk(n) \/ NodeErr(n))
                                      \/ WaveFailed \/ WaveCancelled \/ WaveChecked))
    /\ [](pc = "insert" => ENABLED InsertFiles)
    /\ [](Variant >= 0 /\ computed <= NumNodes + 1)
    /\ [][RunTask => Variant' < Variant]_vars
    /\ []((Acyclic(edges) /\ pc \in Ended /\ ~cancelSeen
              /\ ~HasError(results, nodes_to_run)) =>
            /\ pc = "done"
            /\ DoneSet(node_status) = Nodes
            /\ run.status = "DONE"
            /\ run.nodes_done = NumNodes
            /\ run.details = node_status)

\* a chain of three nodes has been executed in three waves
C3_Witness ==
    /\ pc = "done"
    /\ Acyclic(edges)
    /\ Cardinality(edges) = 2
    /\ computed = NumNodes + 1
    /\ \A n \in Nodes : dispatched[n] = 1
    /\ ~cancelSeen

\* C4: at every call of get_next_nodes_to_run after the first, the DONE
\* nodes are a strict superset of those at the call before; no step takes a
\* node from DONE to another status.
C4_WaveMonotonic ==
    /\ [][(computed' # computed /\ computed >= 1) =>
            (prevDone \subseteq DoneSet(node_status)
               /\ prevDone # DoneSet(node_status))]_vars
    /\ [][\A n \in Nodes : IsDone(node_status, n) => IsDone(node_status', n)]_vars

\* a second wave is executing
C4_Witness ==
    /\ pc = "running"
    /\ computed = 2
    /\ prevDone # {}

\* C5 (the claim as stated): when the wave has failed, every node that
\* returned an error is FAILED in the status vector and in the persisted
\* details, and the run row is FAIL.
C5_NodeErrorMarksFailed ==
    pc = "failed" =>
        /\ run.status = "FAIL"
        /\ \A n \in nodes_to_run : results[n].state = "err" =>
              /\ node_status[n].status = FAILED
              /\ run.details[n].status = FAILED

C7_CancelStands ==
    [][run.status = "CANCEL" => run'.status = "CANCEL"]_vars

\* C8: after load_status a DONE node had a file row and all its ancestors
\* are DONE, every other node is WAITING with the empty uuid, and the reset
\* loop took at most one iteration per node.
C8_ResumeClosure ==
    (pc = "loop" /\ loads >= 1 /\ computed = 0) =>
        /\ \A n \in Nodes :
             IF IsDone(node_status, n)
             THEN /\ n \in rowNodes0
                  /\ Ancestors(edges, n) \subseteq DoneSet(node_status)
                  /\ node_status[n].uuid # NoUuid
             ELSE node_status[n] = NewNodeStatus
        /\ loadIters <= NumNodes

\* the reset loop needed two iterations on an acyclic edge set
C8_Witness ==
    /\ pc = "loop"
    /\ loads = 1
    /\ Acyclic(edges)
    /\ loadIters = 2
    /\ Cardinality(resetNodes) = 2

\* C9 (the claim as stated): after load_status every collected uuid is off
\* the disk and out of the file table, the nodes that still have a file row
\* are exactly the DONE nodes, and for the chain 0 -> 1 -> 2 with a row for
\* node 1 only all nodes are WAITING and the first wave is {0}.
C9_ResumeCleansUp ==
    (pc = "loop" /\ loads = 1 /\ computed = 0) =>
        /\ \A u \in resetUuids :
              u \notin disk /\ \A i \in 1 .. Len(file) : file[i].uuid # u
        /\ RowNodes(file) = DoneSet(node_status)
        /\ (edges = { <<0, 1>>, <<1, 2>> } /\ rowNodes0 = {1}) =>
              /\ DoneSet(node_status) = {}
              /\ GetNextNodesToRun(node_status, edges) = {0}

C12_ArtifactsRecorded ==
    pc \in Ended => disk \subseteq RowUuids(file)

\* the row is the row of a node that is the source of no edge
OutputRow(r) == ~(\E e \in edges : e[1] = r.node_id)

\* the row has left the table or its file has left the disk
Disappears(r, rows2, disk2) ==
    \/ r.uuid \notin RowUuids(rows2)
    \/ (r.uuid \in disk /\ r.uuid \notin disk2)

\* C11: a file row has expires = NULL iff its node is the source of no edge,
\* and the row a wave inserts for any other node expires an hour after the
\* insert; a pass of clear_old_files removes neither the row nor the file
\* of an output node; they disappear only in load_status or in the reset of
\* the run by a due schedule entry.
C11_OutputRetention ==
    /\ [](\A i \in 1 .. Len(file) : (file[i].expires = Null) <=> OutputRow(file[i]))
    /\ [][InsertFiles =>
            \A i \in (Len(file) + 1) .. Len(file') :
                ~OutputRow(file'[i]) => file'[i].expires = now + Hour]_vars
    /\ [][ClearOldFiles =>
            \A i \in 1 .. Len(file) :
                OutputRow(file[i]) => ~Disappears(file[i], file', disk')]_vars
    /\ [][(\E i \in 1 .. Len(file) :
              OutputRow(file[i]) /\ Disappears(file[i], file', disk')) =>
            (LoadStatus \/ ActivateRun)]_vars

\* clear_old_files has removed the expired row of an intermediate node and
\* the row and file of an output node, recorded before, are still there
C11_Witness ==
    /\ loads = 1
    /\ resetUuids = {}
    /\ now >= Hour
    /\ attempted \ RowUuids(file) # {}
    /\ \E i \in 1 .. Len(file) :
          /\ file[i].expires = Null
          /\ file[i].uuid <= MaxInitUuid
          /\ file[i].uuid \notin badDisk
          /\ file[i].uuid \in disk

\* C18: whenever a step deletes file rows (clear_old_files, the reset by a
\* due schedule entry, load_status), remove_uuid_file was called in that
\* operation for the uuid of every deleted row; in remove_files a row whose
\* file could not be removed stays in the table with its file, every other
\* selected row is deleted and its file is removed, and the operation
\* completes.
C18_RemoveBeforeDelete ==
    /\ [][\A u \in RowUuids(file) \ RowUuids(file') : u \in attempted']_vars
    /\ [][(ClearOldFiles \/ ActivateRun) =>
            \A u \in attempted' :
                IF u \in disk /\ u \notin badDisk
                THEN u \notin disk' /\ u \notin RowUuids(file')
                ELSE u \in RowUuids(file') /\ (u \in disk <=> u \in disk')]_vars
    /\ [](ENABLED ClearOldFiles /\ ENABLED ActivateRun)

\* in one pass of remove_files the file of one row could not be removed and
\* its row stays, while another row and its file have been removed
C18_Witness ==
    /\ \E u \in attempted : u \in badDisk /\ u \in RowUuids(file) /\ u \in disk
    /\ \E v \in attempted : v \notin RowUuids(file) /\ v \notin disk

\* the positions of App::server inside its loop
LoopPcs == { "loop", "load", "update", "spawn" }

\* C13: a task is spawned only by the step at "spawn", for the run the loop
\* selected, whose row is RUN then, and the loop goes on to its next
\* iteration; the step that reaches "spawn" has written RUN into the row and
\* has spawned nothing yet; inside the loop the server always has a next
\* step, whatever tasks are executing.
C13_DispatchNonBlocking ==
    /\ [][\A r \in RunIds : tasks'[r] > tasks[r] =>
            (spc = "spawn" /\ cur = r /\ runs[r].status = "RUN" /\ spc' = "loop")]_vars
    /\ [][(spc # "spawn" /\ spc' = "spawn") =>
            (runs'[cur'].status = "RUN" /\ tasks' = tasks)]_vars
    /\ [](spc = "loop" => ENABLED FindNextWaitingRun)
    /\ [](spc = "load" => ENABLED WorkflowFromId)
    /\ [](spc = "update" => ENABLED UpdateStatusRunning)
    /\ [](spc = "spawn" => ENABLED SpawnTask)

\* two runs are RUN at the same time, each with its task executing
C13_Witness ==
    /\ spc = "loop"
    /\ \A r \in RunIds : r <= 2 => (tasks[r] = 1 /\ runs[r].status = "RUN")

\* C14 (the claim as stated): the run find_next_waiting_run returns is the
\* one with the smallest id among the rows that are WAIT at the SELECT.
C14_FifoById ==
    [][(spc = "loop" /\ spc' = "load") =>
          \A r \in WaitingRuns(runs') : cur' <= r]_vars

C17_ActivationNoOpWhenRunning ==
    [][(ActivateRun /\ run.status = "RUN" /\ pc \in { "loop", "running", "insert" }) =>
          (run' = run /\ file' = file /\ disk' = disk)]_vars

\* C19 (the claim as stated): the server loop never returns because of a
\* failing database operation.
C19_LoopNeverReturns ==
    spc # "returned"

\* C20 (the claim as stated): for one wiki Api::new succeeds at most once,
\* a stored entry is never replaced, a call that returns a value returns
\* the stored one, and the write lock excludes readers and other writers.
C20_FetchOnce ==
    /\ [](fetches <= 1)
    /\ [][site_matrix # NoApi => site_matrix' = site_matrix]_vars
    /\ [][\A c \in Callers :
            (got'[c] # got[c] /\ got'[c] # CallErr) => got'[c] = site_matrix']_vars
    /\ [](writer # 0 => readers = {})

\* the derived keys of the non-empty rows of an input file
FileKeys(f, key) ==
    { ReadRowAndKey(f.rows[i], GetColNum(f.header, key)).key :
        i \in { j \in 1 .. Len(f.rows) : f.rows[j] # << >> } }

\* the derived keys of the rows of a result, in output order
OutKeys(res, key) ==
    [i \in 1 .. Len(res.rows) |->
        ReadRowAndKey(res.rows[i], GetColNum(res.header, key)).key]

\* the input that inner_join_on_key takes as its base
BaseFile(files) == Head(SortBySize(files, 1))

\* C21: inner join on key: for two or more inputs with the key column, the
\* base (smallest on disk) having unique keys, a key appears in the output
\* iff it appears in every input, each output key appears once, and the
\* output has at most as many rows as the base input.
C21_InnerJoin ==
    ( /\ jres # NoOutput
      /\ jres.op = "inner_join_on_key"
      /\ Len(jfiles) >= 2
      /\ \A f \in DOMAIN jfiles : GetColNum(jfiles[f].header, JoinKey) # 0
      /\ Key2Row(BaseFile(jfiles), JoinKey).err = "" )
    => /\ jres.res.err = ""
       /\ \A k \in KeyStrings :
            (\E i \in DOMAIN jres.res.rows : OutKeys(jres.res, JoinKey)[i] = k)
            <=> (\A f \in DOMAIN jfiles : k \in FileKeys(jfiles[f], JoinKey))
       /\ \A i, j \in DOMAIN jres.res.rows :
            i # j => OutKeys(jres.res, JoinKey)[i] # OutKeys(jres.res, JoinKey)[j]
       /\ Len(jres.res.rows) <= Len(BaseFile(jfiles).rows)

\* two rows of the file have the same derived key
HasDuplicateKey(f, key) ==
    \E i, j \in DOMAIN f.rows :
        /\ GetColNum(f.header, key) # 0
        /\ i # j
        /\ ReadRowAndKey(f.rows[i], GetColNum(f.header, key)).key
             = ReadRowAndKey(f.rows[j], GetColNum(f.header, key)).key

\* C22: inner_join_on_key returns an error and creates no output artifact
\* when it is given no input, a single input, a base input with two rows of
\* the same derived key, or an input without the key column.
C22_InnerJoinFails ==
    (jres # NoOutput /\ jres.op = "inner_join_on_key") =>
        /\ Len(jfiles) = 0 =>
              jres.res.err = "NoInputs" /\ ~jres.res.created
        /\ Len(jfiles) = 1 =>
              jres.res.err = "SingleInput" /\ ~jres.res.created
        /\ (Len(jfiles) >= 2 /\ HasDuplicateKey(BaseFile(jfiles), JoinKey)) =>
              jres.res.err # "" /\ ~jres.res.created
        /\ ( /\ Len(jfiles) >= 2
             /\ \A f \in DOMAIN jfiles : GetColNum(jfiles[f].header, JoinKey) # 0
             /\ \A i \in DOMAIN BaseFile(jfiles).rows :
                    BaseFile(jfiles).rows[i] # << >>
             /\ HasDuplicateKey(BaseFile(jfiles), JoinKey) ) =>
              jres.res.err = "DuplicateKey"
        /\ (Len(jfiles) >= 2 /\ \E f \in DOMAIN jfiles :
                                   GetColNum(jfiles[f].header, JoinKey) = 0) =>
              jres.res.err # "" /\ ~jres.res.created

\* the base has the key "x" twice, the other input is well-formed, and the
\* join has returned the duplicate-key error
C22_Witness ==
    /\ jres # NoOutput
    /\ jres.op = "inner_join_on_key"
    /\ Len(jfiles) = 2
    /\ \A f \in DOMAIN jfiles : GetColNum(jfiles[f].header, JoinKey) # 0
    /\ FileKeys(BaseFile(jfiles), JoinKey) = { "x" }
    /\ Len(BaseFile(jfiles).rows) = 2
    /\ jres.res.err = "DuplicateKey"
    /\ ~jres.res.created

\* the data lines of the files, one file after the other
RECURSIVE FlatRows(_)
FlatRows(files) ==
    IF files = << >> THEN << >> ELSE Head(files).rows \o FlatRows(Tail(files))

\* the inputs have the same header, and it has the key column
SameKeyedHeaders(files, key) ==
    /\ \A f, g \in DOMAIN files : files[f].header = files[g].header
    /\ \A f \in DOMAIN files : GetColNum(files[f].header, key) # 0

\* C23: merge-unique: for two or more inputs with identical headers, no two
\* output rows have the same derived key, every non-empty derived key of a
\* non-empty input row has an output row, every output row is the first row
\* with its key in size-ascending file order, and no output row is empty or
\* has an empty key.
C23_MergeUnique ==
    ( /\ jres # NoOutput
      /\ jres.op = "merge_unique"
      /\ Len(jfiles) >= 2
      /\ SameKeyedHeaders(jfiles, JoinKey) )
    => LET flat == FlatRows(SortBySize(jfiles, 1))
           kc == GetColNum(jfiles[1].header, JoinKey)
           out == jres.res.rows
       IN
       /\ jres.res.err = ""
       /\ jres.res.header = jfiles[1].header
       /\ \A i, j \in DOMAIN out :
            i # j => ReadRowAndKey(out[i], kc).key # ReadRowAndKey(out[j], kc).key
       /\ \A p \in DOMAIN flat :
            (flat[p] # << >> /\ ReadRowAndKey(flat[p], kc).key # "")
            => \E i \in DOMAIN out :
                  ReadRowAndKey(out[i], kc).key = ReadRowAndKey(flat[p], kc).key
       /\ \A i \in DOMAIN out :
            /\ out[i] # << >>
            /\ ReadRowAndKey(out[i], kc).key # ""
            /\ \E p \in DOMAIN flat :
                 /\ flat[p] = out[i]
                 /\ \A q \in 1 .. (p - 1) :
                      ReadRowAndKey(flat[q], kc).key # ReadRowAndKey(out[i], kc).key

\* the key "x" is in two of the inputs, the key "y" is in one, an input has an
\* empty row or an empty key, and merge_unique has emitted two rows
C23_Witness ==
    /\ jres # NoOutput
    /\ jres.op = "merge_unique"
    /\ Len(jfiles) >= 2
    /\ SameKeyedHeaders(jfiles, JoinKey)
    /\ Cardinality({ f \in DOMAIN jfiles : "x" \in FileKeys(jfiles[f], JoinKey) }) >= 2
    /\ \E f \in DOMAIN jfiles : "y" \in FileKeys(jfiles[f], JoinKey)
    /\ \E f \in DOMAIN jfiles :
          "" \in FileKeys(jfiles[f], JoinKey)
          \/ \E i \in DOMAIN jfiles[f].rows : jfiles[f].rows[i] = << >>
    /\ jres.res.err = ""
    /\ Len(jres.res.rows) = 2

\* how often a row occurs among the rows
Count(rows, r) == Cardinality({ i \in DOMAIN rows : rows[i] = r })

\* the Filter has a regular expression that builds (or none) and the input
\* has the column named by its key
FilterApplies ==
    /\ fin.op.kind = "Filter"
    /\ fin.op.operator = "Regexp" => RegexValid(fin.op.value)
    /\ GetColNum(LoadHeader(fin.file), fin.op.key) # 0

\* C24: filter duality: the data rows emitted with remove_matching = false
\* and those emitted with remove_matching = true partition the data rows of
\* the input: every data row is emitted by exactly one of the two runs, and
\* the numbers of emitted rows add up to the number of data rows of the input.
C24_FilterDuality ==
    (FilterApplies /\ fout[1] # NoOutput /\ fout[2] # NoOutput) =>
        /\ fout[1].err = ""
        /\ fout[2].err = ""
        /\ \A i \in DOMAIN DataRows(fin.file) :
              Count(DataRows(fout[1].file), DataRows(fin.file)[i])
                + Count(DataRows(fout[2].file), DataRows(fin.file)[i])
              = Count(DataRows(fin.file), DataRows(fin.file)[i])
        /\ \A k \in 1 .. 2 : \A i \in DOMAIN DataRows(fout[k].file) :
              \E j \in DOMAIN DataRows(fin.file) :
                 DataRows(fin.file)[j] = DataRows(fout[k].file)[i]
        /\ Len(DataRows(fout[1].file)) + Len(DataRows(fout[2].file))
              = Len(DataRows(fin.file))

\* both runs have returned on an input of two rows and each has emitted one
C24_Witness ==
    /\ FilterApplies
    /\ fout[1] # NoOutput
    /\ fout[2] # NoOutput
    /\ Len(DataRows(fin.file)) = 2
    /\ Len(DataRows(fout[1].file)) = 1
    /\ Len(DataRows(fout[2].file)) = 1

\* C25: sort idempotence: FilterSort applied to the output of FilterSort with
\* the same key and the same value of reverse yields the same sequence of
\* rows as applying it once.
C25_SortIdempotent ==
    ( /\ fin.op.kind = "FilterSort"
      /\ fout[1] # NoOutput
      /\ fout[2] # NoOutput )
    => /\ fout[2].err = ""
       /\ DataRows(fout[2].file) = DataRows(fout[1].file)

\* C26: artifact row count: after one header write and any number of row
\* writes, the rows value that details() reports equals the number of
\* non-header, non-empty lines of the file; a row that encodes to the empty
\* array is neither written nor counted.
C26_RowCount ==
    df.calls # << >> =>
        /\ Details(df.out)
             = Cardinality({ i \in 2 .. Len(df.out.lines) :
                               df.out.lines[i].val # << >> })
        /\ df.out.lines = SelectSeq(df.calls, LAMBDA v : v.val # << >>)

\* C27: WikiPage fill round-trip: for a page that has wiki and prefixed_title
\* set, after fill_missing the fields ns_id, ns_prefix and title are set and
\* prefixed_title is title when ns_prefix is empty and ns_prefix:title
\* otherwise.
C27_FillRoundTrip ==
    (wout # NoOutput /\ wp.wiki # None /\ wp.prefixed_title # None) =>
        /\ wout.ns_id # None
        /\ wout.ns_prefix # None
        /\ wout.title # None
        /\ wout.prefixed_title =
              IF wout.ns_prefix = Some("") THEN wout.title
              ELSE Some(wout.ns_prefix[1] \o ":" \o wout.title[1])

\* Workflow::run lines 282-285: the uuids handed as input to the nodes of a
\* wave
InputUuids(E, ns, wave) == { ns[e[1]].uuid : e \in { d \in E : d[2] \in wave } }

\* C30: neither a pass of clear_old_files nor a scheduled reset removes an
\* artifact that a node of an executing run still needs: every input uuid
\* handed to a dispatched node refers to a file that exists on disk.
C30_InputsExist ==
    [][Dispatch => InputUuids(edges, node_status, nodes_to_run') \subseteq disk]_vars

\* C28: at most one task executes a given run at any time.
C28_OneTaskPerRun == \A r \in RunIds : tasks[r] <= 1

\* C29: under fair scheduling of the scheduler loop, every run that is WAIT
\* and whose workflow can be loaded gets a task (its row set to RUN and the
\* task spawned), also when the workflow of another WAIT run cannot be
\* loaded, unless the server has returned.
C29_NoStarvation ==
    \A r \in RunIds :
        (spc = "loop" /\ runs[r].status = "WAIT" /\ runs[r].workflow_ok) ~>
            (tasks[r] > 0 \/ spc = "returned")

C32_ProgressConsistent ==
    /\ [](/\ run.nodes_done = Cardinality(DoneSet(run.details))
          /\ run.nodes_done \in 0 .. NumNodes)
    /\ [][(RunTask /\ run' # run) =>
            (run'.details = node_status' /\
             run'.nodes_done = Cardinality(DoneSet(node_status')))]_vars
    /\ [][(RunTask /\ run' # run /\ run'.status = "DONE" /\ Acyclic(edges)) =>
            (/\ run'.nodes_done = NumNodes
             /\ DoneSet(node_status') = Nodes)]_vars

\* an acyclic workflow with an edge has run a wave and is written DONE, after
\* the run row was written RUN with some nodes DONE and others not
C32_Witness ==
    /\ pc = "done"
    /\ run.status = "DONE"
    /\ Acyclic(edges)
    /\ edges # {}
    /\ computed >= 3
    /\ run.nodes_done = NumNodes

RECURSIVE OtherColumns(_, _)
OtherColumns(files, key) ==
    IF files = << >> THEN << >>
    ELSE RemoveAt(Head(files).header, GetColNum(Head(files).header, key))
         \o OtherColumns(Tail(files), key)

\* C34: the header of a successful inner join is the header of the base
\* followed by the columns, without the key column, of each other input in
\* ascending order of size; every emitted row starts with the cells of a row
\* of the base and has as many cells as the joined header has columns, also
\* when another input holds a key in more than one row.
C34_JoinShape ==
    (jres # NoOutput /\ jres.op = "inner_join_on_key" /\ jres.res.err = "") =>
        /\ jres.res.header =
              BaseFile(jfiles).header
              \o OtherColumns(Tail(SortBySize(jfiles, 1)), JoinKey)
        /\ \A i \in DOMAIN jres.res.rows :
              /\ Len(jres.res.rows[i]) = Len(jres.res.header)
              /\ \E j \in DOMAIN BaseFile(jfiles).rows :
                    SubSeq(jres.res.rows[i], 1, Len(BaseFile(jfiles).header))
                        = BaseFile(jfiles).rows[j]

RegexFinds(value, str) ==
    \/ str = value
    \/ value = "x" /\ str = ":::x"

\* the cell of a row as the claim selects it: reduced when it is a WikiPage
\* and subkey is set, as it is otherwise
ClaimedCell(row, col_num, subkey) ==
    IF col_num > Len(row) THEN Blank
    ELSE IF row[col_num].kind = "WikiPage" /\ subkey # None
         THEN ToSubKey(row[col_num], subkey)
    ELSE row[col_num]

\* the cell of a row as the amended claim selects it
ReducedCell(row, col_num, subkey) ==
    IF col_num > Len(row) THEN Blank
    ELSE IF row[col_num].kind # "WikiPage" THEN row[col_num]
    ELSE IF subkey = None THEN Blank
    ELSE IF subkey[1] = "title" /\ row[col_num].wp.title # None
         THEN PlainText(row[col_num].wp.title[1])
    ELSE IF subkey[1] = "ns_id" /\ row[col_num].wp.ns_id # None
         THEN IntCell(row[col_num].wp.ns_id[1])
    ELSE Blank

\* the key column of the input of the filter
FilterCol == GetColNum(LoadHeader(fin.file), fin.op.key)

\* a Filter has returned Ok from its i-th run
FilterDone(i) ==
    /\ fin.op.kind = "Filter"
    /\ fout[i] # NoOutput
    /\ fout[i].err = ""

\* C36 (the claim as stated): the cell at the key column is reduced to the
\* plain cell of the named field only when it is a WikiPage and subkey is
\* set, and is used as it is otherwise; the rows that a Filter writes are
\* those judged by that cell, Regexp being matched against its derived key
\* string (for a WikiPage without subkey "{wiki}::{prefixed_title}").
C36_CellAsIs ==
    \A i \in 1 .. 2 :
        FilterDone(i) =>
            IF fin.op.operator = "Regexp"
            THEN DataRows(fout[i].file) =
                    SelectSeq(DataRows(fin.file),
                        LAMBDA row :
                            RegexFinds(fin.op.value,
                                AsKey(ClaimedCell(row, FilterCol, fin.op.subkey)))
                            = (i = 1))
            ELSE (\A j \in DOMAIN DataRows(fin.file) :
                    ClaimedCell(DataRows(fin.file)[j], FilterCol,
                                fin.op.subkey).kind # "WikiPage")
                 => DataRows(fout[i].file) =
                        SelectSeq(DataRows(fin.file),
                            LAMBDA row :
                                DoesMatch(fin.op.operator, fin.op.value,
                                    ClaimedCell(row, FilterCol, fin.op.subkey))
                                = (i = 1))

\* C36 (amended): a WikiPage cell at the key column is always reduced, to
\* the plain cell of the named field when subkey is set and the field has a
\* value, to Blank otherwise (also without subkey); any other cell is used as
\* it is and a missing cell is Blank; the rows that a Filter writes are those
\* judged by that cell, Regexp being matched against its derived key string
\* (the empty string for a WikiPage without subkey).
C36_CellReduced ==
    \A i \in 1 .. 2 :
        FilterDone(i) =>
            /\ \A j \in DOMAIN DataRows(fin.file) :
                  ReducedCell(DataRows(fin.file)[j], FilterCol,
                              fin.op.subkey).kind # "WikiPage"
            /\ DataRows(fout[i].file) =
                  SelectSeq(DataRows(fin.file),
                      LAMBDA row :
                          (IF fin.op.operator = "Regexp"
                           THEN RegexFinds(fin.op.value,
                                   AsKey(ReducedCell(row, FilterCol,
                                                     fin.op.subkey)))
                           ELSE DoesMatch(fin.op.operator, fin.op.value,
                                   ReducedCell(row, FilterCol, fin.op.subkey)))
                          = (i = 1))

\* a Filter with operator Equal and no subkey has kept a row whose key cell
\* is a WikiPage with a title, and dropped a row whose key cell is a text
C36_Witness ==
    /\ FilterDone(1)
    /\ fin.op.operator = "Equal"
    /\ fin.op.subkey = None
    /\ Len(DataRows(fin.file)) = 2
    /\ Len(DataRows(fout[1].file)) = 1
    /\ Len(DataRows(fout[1].file)[1]) = 2
    /\ DataRows(fout[1].file)[1][2].kind = "WikiPage"
    /\ DataRows(fout[1].file)[1][2].wp.title # None

\* the kinds of cell that hold a value
ValueKinds == { "PlainText", "Int", "Float", "WikiPage" }

\* C37: Blank compares equal to Blank and less than every other cell; two
\* cells of the same kind (PlainText, Int, Float, WikiPage) are always
\* comparable, texts and numbers in their natural order; an Int and a Float
\* are compared after promoting the Int; every other pair of different kinds
\* is incomparable.
C37_CellOrdering ==
    fout # NoOutput =>
        LET a == fin[1]
            b == fin[2]
        IN /\ (a.kind = "Blank" /\ b.kind = "Blank") => fout.ord = "Equal"
           /\ (a.kind = "Blank" /\ b.kind # "Blank") => fout.ord = "Less"
           /\ (a.kind # "Blank" /\ b.kind = "Blank") => fout.ord = "Greater"
           /\ (a.kind \in ValueKinds /\ a.kind = b.kind) => fout.ord # "None"
           /\ (a.kind = "PlainText" /\ b.kind = "PlainText") =>
                 fout.ord = Ordering(StrRank(a.s), StrRank(b.s))
           /\ (a.kind = "Int" /\ b.kind = "Int") => fout.ord = Ordering(a.i, b.i)
           /\ (a.kind = "Int" /\ b.kind = "Float" /\ ~b.nan) =>
                 fout.ord = Ordering(2 * a.i, b.h)
           /\ (a.kind = "Float" /\ b.kind = "Int" /\ ~a.nan) =>
                 fout.ord = Ordering(a.h, 2 * b.i)
           /\ (/\ a.kind \in ValueKinds
               /\ b.kind \in ValueKinds
               /\ a.kind # b.kind
               /\ { a.kind, b.kind } # { "Int", "Float" }) => fout.ord = "None"

\* the URL is http(s)://www.wikidata.org/entity/ followed by the letter and
\* digits
IsEntityUrl(url, letter) ==
    /\ url.scheme \in { "http", "https" }
    /\ url.host = "www.wikidata.org"
    /\ url.path = "/entity/"
    /\ url.letter = letter
    /\ url.digits # ""
    /\ url.rest = ""

\* C38: entity_url applied to a WikiPage column yields, for a URL
\* http(s)://www.wikidata.org/entity/Q<digits>, ns_id 0 with title and
\* prefixed_title the Q id, and for a URL .../entity/P<digits>, ns_id 120
\* with title and prefixed_title the P id.
C38_EntityUrl ==
    wout # NoOutput =>
        /\ IsEntityUrl(wp.url, "Q") =>
              /\ wout.ns_id = Some(0)
              /\ wout.title = Some("Q" \o wp.url.digits)
              /\ wout.prefixed_title = Some("Q" \o wp.url.digits)
        /\ IsEntityUrl(wp.url, "P") =>
              /\ wout.ns_id = Some(120)
              /\ wout.title = Some("P" \o wp.url.digits)
              /\ wout.prefixed_title = Some("P" \o wp.url.digits)

====
